---- MODULE Spec2Model ----
(***************************************************************************)
(* Control-protocol engine of the Claude Agent SDK for Go.                 *)
(*                                                                         *)
(* The model follows the control router (type Query), the line transport  *)
(* (type SubprocessCLITransport) and the forwarding goroutine of           *)
(* Client.ReceiveResponse.  Every goroutine of the program is              *)
(* a process of the model; a Go select over several ready cases is a       *)
(* nondeterministic choice among the enabled actions of that process.      *)
(*                                                                         *)
(* Channel capacities are scaled down (the router's consumer channel has   *)
(* 100 slots, the transport's and the forwarder's 10): the behaviour of a  *)
(* buffered channel depends on "full / not full" only, and the scaled      *)
(* capacities let the "full" case be reached.                              *)
(***************************************************************************)
EXTENDS Integers, Sequences, FiniteSets, TLC

\* ------------------------------------------------------------------ bounds
NumCallers      == 2   \* concurrent callers of sendControlRequest
MaxResponses    == 2   \* control_response lines the child writes (correlation runs)
MaxEmit         == 3   \* lines the child writes (message-flow runs)
MaxCycles       == 2   \* ReceiveResponse calls in one run
MessagesChanCap == 2   \* scaled capacity of Query.messagesChan
TransportChanCap == 2  \* scaled capacity of SubprocessCLITransport.messages
OutputChanCap   == 1   \* scaled capacity of ReceiveResponse's outputChan
MaxOps          == 4   \* Connect, Close and Query calls on one client
MaxStops        == 2   \* further Stop calls on one router
MaxStderr       == 1   \* unread lines on the child's diagnostic stream

\* ------------------------------------------------------- program constants
ResponseChanCap == 1   \* make(chan responseResult, 1)

Callers == 1..NumCallers
\* request IDs: req_1 .. req_N are issued; req_(N+1) is never issued in a run
\* of NumCallers calls; 0 stands for "no request_id (or not a string)".
WireIDs   == 0..(NumCallers + 1)
MapIDs    == 1..(NumCallers + 1)


VARIABLES
  \* --- child process and transport
  stdout,            \* lines the child wrote on its output, not yet read
  stdoutEOF,         \* the child closed its output (end-of-stream)
  nEmitted,          \* number of lines the child wrote
  emitted,           \* history: the conversational messages the child wrote, in order
  answered,          \* request IDs the test responder has answered
  tmessages,         \* SubprocessCLITransport.messages (buffered channel)
  tmessagesClosed,   \* close(t.messages) has run
  written,           \* lines written to the child's stdin, in order
  ready,             \* SubprocessCLITransport.ready
  terr,              \* SubprocessCLITransport.err (sticky error), "" = nil
  \* --- router (Query)
  requestMap,        \* Query.requestMap: request ID -> owner of the channel, 0 = absent
  responseChan,      \* the responseChan each sendControlRequest call made
  nextRequestID,     \* Query.nextRequestID
  calls,             \* each sendControlRequest call: [pc, id, res]
  callCtxDone,       \* the context passed to each call is cancelled
  loopPc,            \* messageLoop's position
  loopMsg,           \* the message messageLoop is routing
  loopRes,           \* the responseResult handleControlResponse is about to send
  loopTo,            \* the call whose channel it sends on, 0 = none
  routeErr,          \* what the last routeMessage returned ("nil" or an error)
  messagesChan,      \* Query.messagesChan (the consumer channel)
  messagesChanClosed,
  qctxDone,          \* Query.ctx is cancelled
  stopChanClosed,    \* close(q.stopChan) has run
  stopPc,            \* position of the Stop call
  isStreamingMode,   \* Query.isStreamingMode
  canUseTool,        \* Query.canUseTool is set (a permission callback is registered)
  handlers,          \* running handleControlRequest goroutines (their messages)
  \* --- client forwarder (ReceiveResponse) and the application reading it
  connected,         \* Client.connected
  rrPc,              \* position of the forwarding goroutine
  rrHeld,            \* message taken from messagesChan, not yet forwarded
  rrCtxDone,         \* the context passed to ReceiveResponse is cancelled
  outputChan,        \* the channel ReceiveResponse returned
  outputClosed,
  consumed,          \* history: what the application read, one sequence per cycle
  \* --- history of the correlation
  issued,            \* history: request IDs in the order generateRequestID returned them
  delivered,         \* history: per wire ID, results put on a response channel
  matched,           \* history: per call, the control_response that resolved it
  dropped,           \* history: request IDs of the control_responses dropped as orphans
  routed,            \* history: the messages put on Query.messagesChan, in order
  \* --- client lifecycle and the transport's process
  clPc,              \* the Client call that holds c.mu, and where it is ("idle" = none)
  opRes,             \* the last call that returned: [op, err], err "" = nil
  nOps,              \* number of lifecycle calls made so far
  cquery,            \* Client.query # nil
  cctxDone,          \* Client.ctx is cancelled
  connCtxDone,       \* the context passed to the running Connect (or one-shot Query) is cancelled
  tcmd,              \* SubprocessCLITransport.cmd # nil
  nSpawned,          \* history: child processes started (cmd.Start succeeded)
  nReaders,          \* history: reader goroutines started by the transport
  stderr,            \* lines the child wrote on its diagnostic stream, not yet read
  nStop,             \* history: calls of Query.Stop
  nTClose,           \* history: calls of SubprocessCLITransport.Close
  connectTrace,      \* history: the steps the latest Client.Connect has taken, in order
                     \* (or, the transport used directly, one entry per Connect call)
  nOutClose,         \* history: number of times close(outputChan) ran
  tctxDone,          \* SubprocessCLITransport.ctx is cancelled
  queryPc,           \* a Query or QueryWithContent past its checks: [op, content], or NoQuery
  \* --- control requests of the child, and Initialize
  invoked,           \* history: the user callbacks handleControlRequest has called, in order
  initialized,       \* Query.initialized
  initializeResult,  \* Query.initializeResult
  initCall,          \* per caller, its call of Query.Initialize: [pc, res]
  \* --- NewClient
  options,           \* the ClaudeAgentOptions object the caller passes to NewClient
  client             \* what the last NewClient returned

tvars    == <<stdout, stdoutEOF, nEmitted, emitted, answered, tmessages, tmessagesClosed, written, ready, terr>>
callvars == <<requestMap, responseChan, nextRequestID, calls, callCtxDone, issued,
              delivered, matched, dropped>>
loopvars == <<loopPc, loopMsg, loopRes, loopTo, routeErr, messagesChan, messagesChanClosed,
              qctxDone, stopChanClosed, stopPc, isStreamingMode, canUseTool, handlers>>
rrvars   == <<connected, rrPc, rrHeld, rrCtxDone, outputChan, outputClosed, consumed>>
clvars   == <<clPc, opRes, nOps, cquery, cctxDone, connCtxDone, tcmd, nSpawned, nReaders,
              stderr, nStop, nTClose, connectTrace, nOutClose, queryPc, tctxDone>>
hvars    == <<invoked, initialized, initializeResult, initCall, options, client>>
vars     == <<tvars, callvars, loopvars, rrvars, routed, clvars, hvars>>

\* ---------------------------------------------------------------- messages
\* A decoded line.  type is the discriminator UnmarshalMessage switches on;
\* n numbers the conversational messages in the order the child wrote them
\* (0 on control envelopes); rid/sub/val are the
\* envelope fields the router reads (request_id, subtype, payload or error).
Msg(t, n, rid, sub, val) == [type |-> t, n |-> n, rid |-> rid, sub |-> sub, val |-> val]
NoMsg == Msg("none", 0, 0, "", "")

\* A string-keyed map (a Go map[string]interface{}, a JSON object).
EmptyMap == [k \in {} |-> ""]
MapPut(m, k, v) == [x \in DOMAIN m \cup {k} |-> IF x = k THEN v ELSE m[x]]

\* The "request" object of a control_request line.  present = FALSE is a
\* line without that key; request_id 0, a string "" and message 0 are keys
\* that are absent (or not of the type the handlers assert).  message is the
\* "id" of the JSON-RPC message an mcp_message request carries.
RequestData(id, sub, tool, input, server, message, callback) ==
  [present |-> TRUE, request_id |-> id, subtype |-> sub, tool_name |-> tool, input |-> input,
   server_name |-> server, message |-> message, callback_id |-> callback, tool_use_id |-> ""]
NoRequestData == [present |-> FALSE, request_id |-> 0, subtype |-> "", tool_name |-> "",
                  input |-> "", server_name |-> "", message |-> 0, callback_id |-> "",
                  tool_use_id |-> ""]
\* The request object with the key "tool_use_id" holding the JSON string id.
WithToolUseID(req, id) == [req EXCEPT !.tool_use_id = id]

\* A control_request line as the child writes it.  The request's ID is in
\* one of three places: the top-level key "request_id" (the shape of the
\* lines sendControlRequest itself writes), inside "request", or inside
\* "data"; where = "none" is a line without an ID.
ControlRequestWire(where, id, req) ==
  [type       |-> "control_request",
   request_id |-> IF where = "top" THEN id ELSE 0,
   data       |-> [request_id |-> IF where = "data" THEN id ELSE 0],
   request    |-> IF req.present
                    THEN [req EXCEPT !.request_id = IF where = "request" THEN id ELSE 0]
                    ELSE req]

\* The ID the child gave the request, wherever it put it.
WireRequestID(line) ==
  IF line.request_id # 0 THEN line.request_id
  ELSE IF line.data.request_id # 0 THEN line.data.request_id
  ELSE line.request.request_id

\* A JSON value as far as UserMessage.UnmarshalJSON tells values apart: no
\* value (the key is absent), null, a string, an array (of content block
\* objects), or anything else.
JSONValue(kind, str, blocks) == [kind |-> kind, str |-> str, blocks |-> blocks]
JSONAbsent == JSONValue("absent", "", <<>>)
JSONNull == JSONValue("null", "", <<>>)
JSONString(str) == JSONValue("string", str, <<>>)
JSONArray(blocks) == JSONValue("array", "", blocks)
JSONNumber == JSONValue("number", "", <<>>)

\* A content block object: its "type" and, for a tool_result, "tool_use_id".
BlockWire(type, id) == [type |-> type, tool_use_id |-> id]

\* A line of type "user": its top-level "content", and the "content" inside
\* its "message" object (absent when the line has no "message").
UserWire(content, nested) == [type |-> "user", content |-> content, message |-> nested]
IsUserWire(line) == line.type = "user" /\ "message" \in DOMAIN line

\* UnmarshalContentBlock: the block type named by "type", or an error.
UnmarshalContentBlock(b) ==
  IF b.type \in {"text", "thinking", "tool_use", "tool_result"}
    THEN [err |-> "", block |-> [kind |-> b.type, tool_use_id |-> b.tool_use_id]]
    ELSE [err |-> "unknown content block type", block |-> [kind |-> "", tool_use_id |-> ""]]

\* UserMessage.UnmarshalJSON: the content is taken from the top-level key
\* "content"; a string (or null, which decodes as "") gives string content,
\* an array gives the decoded blocks, anything else, no value included, is
\* an error.
UserMessage_UnmarshalJSON(line) ==
  LET c == line.content
      decoded == [i \in 1..Len(c.blocks) |-> UnmarshalContentBlock(c.blocks[i])]
  IN IF c.kind \in {"string", "null"}
       THEN [err |-> "", content |-> [kind |-> "string", str |-> c.str, blocks |-> <<>>]]
     ELSE IF c.kind = "array"
       THEN IF \E i \in 1..Len(c.blocks) : decoded[i].err # ""
              THEN [err |-> "unknown content block type",
                    content |-> [kind |-> "none", str |-> "", blocks |-> <<>>]]
              ELSE [err |-> "",
                    content |-> [kind |-> "blocks", str |-> "",
                                 blocks |-> [i \in 1..Len(c.blocks) |-> decoded[i].block]]]
     ELSE [err |-> "content must be string or array of content blocks",
           content |-> [kind |-> "none", str |-> "", blocks |-> <<>>]]

\* The error UnmarshalMessage returns for a line, "" when it decodes.  Type
\* "invalid" stands for the lines it rejects whatever they hold.
UnmarshalError(line) ==
  IF line.type = "invalid" THEN "failed to parse message"
  ELSE IF IsUserWire(line) /\ UserMessage_UnmarshalJSON(line).err # ""
    THEN "failed to unmarshal user message"
  ELSE ""

\* UnmarshalMessage on a line that decodes.  A control_request is decoded
\* into a SystemMessage, whose fields are type, subtype, data, response and
\* request: json.Unmarshal drops every other top-level key of the line.  A
\* user line is decoded by UserMessage.UnmarshalJSON.  The other lines of
\* this model are written in their decoded form already.
\* (sent_id is history: the ID the child gave the request.  No handler
\* reads it.)
UnmarshalMessage(line) ==
  IF line.type = "control_request" /\ "request_id" \in DOMAIN line
    THEN [type |-> line.type, data |-> line.data, request |-> line.request,
          sent_id |-> WireRequestID(line)]
  ELSE IF IsUserWire(line)
    THEN [type |-> "user", content |-> UserMessage_UnmarshalJSON(line).content]
  ELSE line

\* The concatenation of a sequence of sequences (the messages the
\* application has read, over all cycles, in order).
RECURSIVE FlattenFrom(_, _)
FlattenFrom(ss, i) == IF i > Len(ss) THEN <<>> ELSE ss[i] \o FlattenFrom(ss, i + 1)
Flatten(ss) == FlattenFrom(ss, 1)

IsControl(m) == m.type \in {"control_request", "control_response"}
IsResult(m)  == m.type = "result"

RECURSIVE SelectSeq2(_, _)
\* the non-control messages of a sequence, in order
SelectSeq2(s, i) ==
  IF i > Len(s) THEN <<>>
  ELSE IF IsControl(s[i]) THEN SelectSeq2(s, i + 1)
       ELSE <<s[i]>> \o SelectSeq2(s, i + 1)
Conversational(s) == SelectSeq2(s, 1)

\* responseResult{response, err} and the (response, error) a call returns
Result(kind, val) == [kind |-> kind, val |-> val]
NoResult == Result("none", "")

\* --------------------------------------------------------------- transport
\* SubprocessCLITransport.Write, the caller holding t.mu.  ok is whether the
\* write on the child's stdin pipe succeeds.  errOut is the error returned
\* ("" = nil).
WriteError(ok) ==
  IF ~ready THEN "transport is not ready for writing"
  ELSE IF ok THEN ""
  ELSE "failed to write to subprocess stdin"

\* (a variant whose failed write leaves the transport ready)
Write_KeepReady(line, ok) ==
  /\ written' = IF ready /\ ok THEN Append(written, line) ELSE written
  /\ ready'   = ready
  /\ terr'    = IF ready /\ ~ok THEN "failed to write to subprocess stdin" ELSE terr

Write(line, ok) ==
  /\ written' = IF ready /\ ok THEN Append(written, line) ELSE written
  /\ ready'   = IF ready /\ ~ok THEN FALSE ELSE ready
  /\ terr'    = IF ready /\ ~ok THEN "failed to write to subprocess stdin" ELSE terr

\* The child process writes one line on its output (at most max in a run).
ChildEmit(m, max) ==
  /\ nSpawned > 0
  /\ ~stdoutEOF
  /\ nEmitted < max
  /\ nEmitted' = nEmitted + 1
  /\ stdout'  = Append(stdout, m)
  /\ emitted' = IF IsControl(m) THEN emitted ELSE Append(emitted, m)
  /\ UNCHANGED <<stdoutEOF, tmessages, tmessagesClosed, written, ready, terr>>
  /\ UNCHANGED <<callvars, loopvars, rrvars, clvars, hvars, routed>>

\* A conversational message (user, assistant, result).
ChildEmitMessage(t, max) ==
  /\ ChildEmit(Msg(t, Len(emitted) + 1, 0, "", ""), max)
  /\ UNCHANGED answered

\* A control_response with any request_id, subtype and payload; sub = "nil"
\* is an envelope without a response object, rid = 0 one without request_id.
ChildEmitControlResponse(rid, sub, val, max) ==
  /\ ChildEmit(Msg("control_response", 0, rid, sub, val), max)
  /\ UNCHANGED answered

\* The responder of TestConcurrentRequests: it answers, with success, a
\* request it sees written that is still in the request map and that it has
\* not answered yet.  The payload names the request, so that a response
\* handed to another caller shows.
ResponderAnswer(i, max) ==
  /\ i \in 1..Len(written)
  /\ written[i].type = "control_request"
  /\ requestMap[written[i].rid] # 0
  /\ written[i].rid \notin answered
  /\ answered' = answered \cup {written[i].rid}
  /\ ChildEmit(Msg("control_response", 0, written[i].rid, "success", ToString(written[i].rid)),
               max)

\* The child closes its output: the reader will see io.EOF after the lines
\* already written.
ChildCloseStdout ==
  /\ nSpawned > 0
  /\ ~stdoutEOF
  /\ stdoutEOF' = TRUE
  /\ UNCHANGED <<stdout, nEmitted, emitted, answered, tmessages, tmessagesClosed, written, ready, terr>>
  /\ UNCHANGED <<callvars, loopvars, rrvars, clvars, hvars, routed>>

\* (a variant whose send does not block: the line is discarded when the
\* channel is full)
messageReaderLoop_Send_NonBlocking ==
  /\ ~tmessagesClosed
  /\ stdout # <<>>
  /\ UnmarshalError(Head(stdout)) = ""
  /\ tmessages' = IF Len(tmessages) < TransportChanCap THEN Append(tmessages, UnmarshalMessage(Head(stdout)))
                  ELSE tmessages
  /\ stdout' = Tail(stdout)
  /\ UNCHANGED <<stdoutEOF, nEmitted, emitted, answered, tmessagesClosed, written, ready, terr>>
  /\ UNCHANGED <<callvars, loopvars, rrvars, clvars, hvars, routed>>

\* messageReaderLoop: ReadLine, UnmarshalMessage and the send on t.messages
\* (which blocks while the channel is full).
messageReaderLoop_Send ==
  /\ ~tmessagesClosed
  /\ stdout # <<>>
  /\ UnmarshalError(Head(stdout)) = ""
  /\ Len(tmessages) < TransportChanCap
  /\ tmessages' = Append(tmessages, UnmarshalMessage(Head(stdout)))
  /\ stdout' = Tail(stdout)
  /\ UNCHANGED <<stdoutEOF, nEmitted, emitted, answered, tmessagesClosed, written, ready, terr>>
  /\ UNCHANGED <<callvars, loopvars, rrvars, clvars, hvars, routed>>

\* (a variant that gives up at the first line that does not decode)
messageReaderLoop_DecodeError_Close ==
  /\ ~tmessagesClosed
  /\ stdout # <<>>
  /\ UnmarshalError(Head(stdout)) # ""
  /\ stdout' = Tail(stdout)
  /\ terr' = IF terr = "" THEN UnmarshalError(Head(stdout)) ELSE terr
  /\ tmessagesClosed' = TRUE
  /\ UNCHANGED <<stdoutEOF, nEmitted, emitted, answered, tmessages, written, ready>>
  /\ UNCHANGED <<callvars, loopvars, rrvars, clvars, hvars, routed>>

\* messageReaderLoop: UnmarshalMessage fails on the line read (type
\* "invalid" stands for every line it rejects): OnError, and on to the next
\* line.
messageReaderLoop_DecodeError ==
  /\ ~tmessagesClosed
  /\ stdout # <<>>
  /\ UnmarshalError(Head(stdout)) # ""
  /\ stdout' = Tail(stdout)
  /\ terr' = IF terr = "" THEN UnmarshalError(Head(stdout)) ELSE terr
  /\ UNCHANGED <<stdoutEOF, nEmitted, emitted, answered, tmessages, tmessagesClosed, written, ready>>
  /\ UNCHANGED <<callvars, loopvars, rrvars, clvars, hvars, routed>>

\* messageReaderLoop: ReadLine returns an error other than io.EOF (the
\* stream cannot be read): OnError, return, and the deferred
\* close(t.messages).
messageReaderLoop_ReadError ==
  /\ ~tmessagesClosed
  /\ nSpawned > 0 /\ ~stdoutEOF
  /\ terr' = IF terr = "" THEN "failed to read JSON line from subprocess" ELSE terr
  /\ tmessagesClosed' = TRUE
  /\ UNCHANGED <<stdout, stdoutEOF, nEmitted, emitted, answered, tmessages, written, ready>>
  /\ UNCHANGED <<callvars, loopvars, rrvars, clvars, hvars, routed>>

\* messageReaderLoop: case <-ctx.Done() at the top of the loop or in the
\* select of the send: return, and the deferred close(t.messages).
messageReaderLoop_CtxDone ==
  /\ ~tmessagesClosed
  /\ nSpawned > 0 /\ tctxDone
  /\ tmessagesClosed' = TRUE
  /\ UNCHANGED <<stdout, stdoutEOF, nEmitted, emitted, answered, tmessages, written, ready, terr>>
  /\ UNCHANGED <<callvars, loopvars, rrvars, clvars, hvars, routed>>

\* messageReaderLoop: ReadLine returns io.EOF; the deferred close(t.messages).
messageReaderLoop_EOF ==
  /\ ~tmessagesClosed
  /\ stdout = <<>>
  /\ stdoutEOF
  /\ tmessagesClosed' = TRUE
  /\ UNCHANGED <<stdout, stdoutEOF, nEmitted, emitted, answered, tmessages, written, ready, terr>>
  /\ UNCHANGED <<callvars, loopvars, rrvars, clvars, hvars, routed>>

\* ------------------------------------------------------ sendControlRequest
ControlRequestLine(id) == Msg("control_request", 0, id, "request", "")

\* (a variant whose increment of the counter is lost)
generateRequestID_LostUpdate(c) ==
  /\ nextRequestID' = nextRequestID
  /\ calls' = [calls EXCEPT ![c].id = nextRequestID + 1, ![c].pc = "register"]
  /\ issued' = Append(issued, nextRequestID + 1)

\* generateRequestID: atomic.AddInt64(&q.nextRequestID, 1)
generateRequestID(c) ==
  /\ nextRequestID' = nextRequestID + 1
  /\ calls' = [calls EXCEPT ![c].id = nextRequestID + 1, ![c].pc = "register"]
  /\ issued' = Append(issued, nextRequestID + 1)

\* sendControlRequest up to generateRequestID's return.
sendControlRequest_Begin(c) ==
  /\ calls[c].pc = "idle"
  /\ IF ~isStreamingMode
       THEN /\ calls' = [calls EXCEPT ![c].pc = "done",
                           ![c].res = Result("control_protocol",
                                        "control requests require streaming mode")]
            /\ UNCHANGED <<nextRequestID, issued>>
       ELSE generateRequestID(c)
  /\ UNCHANGED <<requestMap, responseChan, callCtxDone, delivered, matched, dropped>>
  /\ UNCHANGED <<tvars, loopvars, rrvars, clvars, hvars, routed>>

\* (a variant that keys the entry by the shared counter, not by the ID this
\* call generated)
sendControlRequest_Register_ByCounter(c) ==
  /\ calls[c].pc = "register"
  /\ requestMap' = [requestMap EXCEPT ![nextRequestID] = c]
  /\ calls' = [calls EXCEPT ![c].pc = "write"]
  /\ UNCHANGED <<responseChan, nextRequestID, callCtxDone, issued, delivered, matched, dropped>>
  /\ UNCHANGED <<tvars, loopvars, rrvars, clvars, hvars, routed>>

\* q.requestMap[requestID] = responseChan, under q.mu.
sendControlRequest_Register(c) ==
  /\ calls[c].pc = "register"
  /\ requestMap' = [requestMap EXCEPT ![calls[c].id] = c]
  /\ calls' = [calls EXCEPT ![c].pc = "write"]
  /\ UNCHANGED <<responseChan, nextRequestID, callCtxDone, issued, delivered, matched, dropped>>
  /\ UNCHANGED <<tvars, loopvars, rrvars, clvars, hvars, routed>>

\* (a variant that returns on a failed write and leaves the entry in the map)
sendControlRequest_Write_KeepEntry(c, ok) ==
  /\ calls[c].pc = "write"
  /\ Write(ControlRequestLine(calls[c].id), ok)
  /\ calls' = IF WriteError(ok) = ""
                THEN [calls EXCEPT ![c].pc = "wait"]
                ELSE [calls EXCEPT ![c].pc = "done",
                                   ![c].res = Result("send_failed", WriteError(ok))]
  /\ UNCHANGED requestMap
  /\ UNCHANGED <<stdout, stdoutEOF, nEmitted, emitted, answered, tmessages, tmessagesClosed>>
  /\ UNCHANGED <<responseChan, nextRequestID, callCtxDone, issued, delivered, matched, dropped>>
  /\ UNCHANGED <<loopvars, rrvars, clvars, hvars, routed>>

\* q.transport.Write; on failure delete(q.requestMap, requestID) and return.
sendControlRequest_Write(c, ok) ==
  /\ calls[c].pc = "write"
  /\ Write(ControlRequestLine(calls[c].id), ok)
  /\ IF WriteError(ok) = ""
       THEN /\ calls' = [calls EXCEPT ![c].pc = "wait"]
            /\ UNCHANGED requestMap
       ELSE /\ calls' = [calls EXCEPT ![c].pc = "done",
                           ![c].res = Result("send_failed", WriteError(ok))]
            /\ requestMap' = [requestMap EXCEPT ![calls[c].id] = 0]
  /\ UNCHANGED <<stdout, stdoutEOF, nEmitted, emitted, answered, tmessages, tmessagesClosed>>
  /\ UNCHANGED <<responseChan, nextRequestID, callCtxDone, issued, delivered, matched, dropped>>
  /\ UNCHANGED <<loopvars, rrvars, clvars, hvars, routed>>

\* select: case result := <-responseChan
sendControlRequest_Receive(c) ==
  /\ calls[c].pc = "wait"
  /\ responseChan[c] # <<>>
  /\ calls' = [calls EXCEPT ![c].pc = "done", ![c].res = Head(responseChan[c])]
  /\ responseChan' = [responseChan EXCEPT ![c] = Tail(responseChan[c])]
  /\ UNCHANGED <<requestMap, nextRequestID, callCtxDone, issued, delivered, matched, dropped>>
  /\ UNCHANGED <<tvars, loopvars, rrvars, clvars, hvars, routed>>

\* (a variant that returns on cancellation and leaves the entry in the map)
sendControlRequest_Cancelled_KeepEntry(c) ==
  /\ calls[c].pc = "wait"
  /\ callCtxDone[c]
  /\ calls' = [calls EXCEPT ![c].pc = "done", ![c].res = Result("canceled", "context canceled")]
  /\ UNCHANGED <<requestMap, responseChan, nextRequestID, callCtxDone, issued, delivered,
                 matched, dropped>>
  /\ UNCHANGED <<tvars, loopvars, rrvars, clvars, hvars, routed>>

\* select: case <-ctx.Done(): delete(q.requestMap, requestID); return ctx.Err()
sendControlRequest_Cancelled(c) ==
  /\ calls[c].pc = "wait"
  /\ callCtxDone[c]
  /\ requestMap' = [requestMap EXCEPT ![calls[c].id] = 0]
  /\ calls' = [calls EXCEPT ![c].pc = "done", ![c].res = Result("canceled", "context canceled")]
  /\ UNCHANGED <<responseChan, nextRequestID, callCtxDone, issued, delivered, matched, dropped>>
  /\ UNCHANGED <<tvars, loopvars, rrvars, clvars, hvars, routed>>

\* The caller cancels the context it passed to sendControlRequest.
CancelCall(c) ==
  /\ calls[c].pc = "wait"   \* the call reads ctx in its final select only
  /\ ~callCtxDone[c]
  /\ callCtxDone' = [callCtxDone EXCEPT ![c] = TRUE]
  /\ UNCHANGED <<requestMap, responseChan, nextRequestID, calls, issued, delivered, matched, dropped>>
  /\ UNCHANGED <<tvars, loopvars, rrvars, clvars, hvars, routed>>

\* -------------------------------------------------------------- Initialize
\* (a variant of Initialize that does not look at q.initialized: every call
\* sends the request)
Initialize_Enter_NoCache(c) ==
  /\ initCall[c].pc = "idle" /\ calls[c].pc = "idle"
  /\ initCall' = [initCall EXCEPT ![c] =
                    IF ~isStreamingMode THEN [pc |-> "returned", res |-> Result("nil", "")]
                    ELSE [pc |-> "call", res |-> NoResult]]
  /\ UNCHANGED <<invoked, initialized, initializeResult, options, client>>
  /\ UNCHANGED <<tvars, callvars, loopvars, rrvars, clvars, routed>>

\* Query.Initialize up to its first return or its call of sendControlRequest:
\* (nil, nil) when the router is not in streaming mode, the cached result
\* when q.initialized is set, else the request is built and sent.
Initialize_Enter(c) ==
  /\ initCall[c].pc = "idle" /\ calls[c].pc = "idle"
  /\ initCall' = [initCall EXCEPT ![c] =
                    IF ~isStreamingMode THEN [pc |-> "returned", res |-> Result("nil", "")]
                    ELSE IF initialized THEN [pc |-> "returned", res |-> initializeResult]
                    ELSE [pc |-> "call", res |-> NoResult]]
  /\ UNCHANGED <<invoked, initialized, initializeResult, options, client>>
  /\ UNCHANGED <<tvars, callvars, loopvars, rrvars, clvars, routed>>

\* Initialize's sendControlRequest, as the caller's call of the router.
Initialize_Send(c) ==
  /\ initCall[c].pc = "call"
  /\ \/ sendControlRequest_Begin(c)
     \/ sendControlRequest_Register(c)
     \/ \E ok \in BOOLEAN : sendControlRequest_Write(c, ok)
     \/ sendControlRequest_Receive(c)
     \/ sendControlRequest_Cancelled(c)

\* sendControlRequest returned: on an error Initialize returns
\* "initialization failed"; else q.initialized = true, q.initializeResult =
\* result, and the result is returned.
Initialize_Return(c) ==
  /\ initCall[c].pc = "call" /\ calls[c].pc = "done"
  /\ IF calls[c].res.kind = "ok"
       THEN /\ initialized' = TRUE
            /\ initializeResult' = calls[c].res
            /\ initCall' = [initCall EXCEPT ![c] = [pc |-> "returned", res |-> calls[c].res]]
       ELSE /\ initCall' = [initCall EXCEPT ![c] =
                              [pc |-> "returned",
                               res |-> Result("control_protocol", "initialization failed")]]
            /\ UNCHANGED <<initialized, initializeResult>>
  /\ UNCHANGED <<invoked, options, client>>
  /\ UNCHANGED <<tvars, callvars, loopvars, rrvars, clvars, routed>>

\* ------------------------------------------------------------ message loop
\* Query.Start: q.started = true; go q.messageLoop().  (loopPc = "idle" is
\* started = false.)
Start ==
  /\ loopPc = "idle"
  /\ loopPc' = "select"
  /\ UNCHANGED <<loopMsg, loopRes, loopTo, routeErr, messagesChan, routed, messagesChanClosed,
                 qctxDone, stopChanClosed, stopPc, isStreamingMode, canUseTool, handlers>>
  /\ UNCHANGED <<tvars, callvars, rrvars, clvars, hvars>>

\* (a variant that ignores the envelope's subtype)
ResponseResult_IgnoreSubtype(m) == Result("ok", m.val)

\* The responseResult handleControlResponse builds from a response envelope.
ResponseResult(m) ==
  IF m.sub = "error"
    THEN Result("control_protocol",
                IF m.val = "" THEN "unknown control protocol error" ELSE m.val)
    ELSE Result("ok", m.val)

\* (a variant in which a malformed envelope ends the message loop)
handleControlResponse_FailFast(m) ==
  IF m.sub = "nil" \/ m.rid = 0 THEN
      /\ routeErr' = "invalid control response"
      /\ loopPc' = "exited"
      /\ UNCHANGED <<loopMsg, loopRes, loopTo, requestMap, matched, dropped>>
  ELSE IF requestMap[m.rid] = 0 THEN
      /\ routeErr' = "nil"
      /\ dropped' = dropped \cup {m.rid}
      /\ UNCHANGED <<loopPc, loopMsg, loopRes, loopTo, requestMap, matched>>
  ELSE
      /\ requestMap' = [requestMap EXCEPT ![m.rid] = 0]
      /\ loopPc' = "deliver"
      /\ loopMsg' = m
      /\ loopTo' = requestMap[m.rid]
      /\ loopRes' = ResponseResult(m)
      /\ matched' = [matched EXCEPT ![requestMap[m.rid]] = m]
      /\ UNCHANGED <<routeErr, dropped>>

\* (a variant that looks the entry up and leaves it in the map)
handleControlResponse_KeepEntry(m) ==
  IF m.sub = "nil" THEN
      /\ routeErr' = "invalid control response format: response field is nil"
      /\ UNCHANGED <<loopPc, loopMsg, loopRes, loopTo, requestMap, matched, dropped>>
  ELSE IF m.rid = 0 THEN
      /\ routeErr' = "missing request_id in control response"
      /\ UNCHANGED <<loopPc, loopMsg, loopRes, loopTo, requestMap, matched, dropped>>
  ELSE IF requestMap[m.rid] = 0 THEN
      /\ routeErr' = "nil"
      /\ dropped' = dropped \cup {m.rid}
      /\ UNCHANGED <<loopPc, loopMsg, loopRes, loopTo, requestMap, matched>>
  ELSE
      /\ loopPc' = "deliver"
      /\ loopMsg' = m
      /\ loopTo' = requestMap[m.rid]
      /\ loopRes' = ResponseResult(m)
      /\ matched' = [matched EXCEPT ![requestMap[m.rid]] = m]
      /\ UNCHANGED <<requestMap, routeErr, dropped>>

\* handleControlResponse up to its select: the format checks, and the lookup
\* and delete under q.mu.
handleControlResponse(m) ==
  IF m.sub = "nil" THEN
      /\ routeErr' = "invalid control response format: response field is nil"
      /\ UNCHANGED <<loopPc, loopMsg, loopRes, loopTo, requestMap, matched, dropped>>
  ELSE IF m.rid = 0 THEN
      /\ routeErr' = "missing request_id in control response"
      /\ UNCHANGED <<loopPc, loopMsg, loopRes, loopTo, requestMap, matched, dropped>>
  ELSE IF requestMap[m.rid] = 0 THEN
      \* orphaned response
      /\ routeErr' = "nil"
      /\ dropped' = dropped \cup {m.rid}
      /\ UNCHANGED <<loopPc, loopMsg, loopRes, loopTo, requestMap, matched>>
  ELSE
      /\ requestMap' = [requestMap EXCEPT ![m.rid] = 0]
      /\ loopPc' = "deliver"
      /\ loopMsg' = m
      /\ loopTo' = requestMap[m.rid]
      /\ loopRes' = ResponseResult(m)
      /\ matched' = [matched EXCEPT ![requestMap[m.rid]] = m]
      /\ UNCHANGED <<routeErr, dropped>>

\* (a variant that also forwards an inbound control request to the
\* consumer channel)
routeMessage_LeakControl(m) ==
  IF m.type = "control_response" THEN
      /\ handleControlResponse(m)
      /\ UNCHANGED <<messagesChan, routed, handlers>>
  ELSE
      \/ /\ Len(messagesChan) < MessagesChanCap
         /\ messagesChan' = Append(messagesChan, m)
         /\ routed' = Append(routed, m)
         /\ routeErr' = "nil"
         /\ handlers' = IF m.type = "control_request" THEN handlers \cup {m} ELSE handlers
         /\ UNCHANGED <<loopPc, loopMsg, loopRes, loopTo, requestMap, matched, dropped>>
      \/ /\ Len(messagesChan) >= MessagesChanCap \/ qctxDone
         /\ loopPc' = "forward"
         /\ loopMsg' = m
         /\ UNCHANGED <<routeErr, loopRes, loopTo, requestMap, matched, dropped, messagesChan,
                        routed, handlers>>

\* (a variant that runs the control-request handler on the loop's own
\* goroutine: the loop waits for the handler)
routeMessage_Synchronous(m) ==
  IF m.type = "control_response" THEN
      /\ handleControlResponse(m)
      /\ UNCHANGED <<messagesChan, routed, handlers>>
  ELSE IF m.type = "control_request" THEN
      /\ handlers' = handlers \cup {m}
      /\ loopPc' = "handler"
      /\ UNCHANGED <<routeErr, loopMsg, loopRes, loopTo, requestMap, matched, dropped,
                     messagesChan, routed>>
  ELSE
      \/ /\ Len(messagesChan) < MessagesChanCap
         /\ messagesChan' = Append(messagesChan, m)
         /\ routed' = Append(routed, m)
         /\ routeErr' = "nil"
         /\ UNCHANGED <<loopPc, loopMsg, loopRes, loopTo, requestMap, matched, dropped, handlers>>
      \/ /\ Len(messagesChan) >= MessagesChanCap \/ qctxDone
         /\ loopPc' = "forward"
         /\ loopMsg' = m
         /\ UNCHANGED <<routeErr, loopRes, loopTo, requestMap, matched, dropped, messagesChan,
                        routed, handlers>>

\* routeMessage up to the point where it returns or blocks.
routeMessage(m) ==
  IF m.type = "control_response" THEN
      /\ handleControlResponse(m)
      /\ UNCHANGED <<messagesChan, routed, handlers>>
  ELSE IF m.type = "control_request" THEN
      \* go q.handleControlRequest(sysMsg)
      /\ handlers' = handlers \cup {m}
      /\ routeErr' = "nil"
      /\ UNCHANGED <<loopPc, loopMsg, loopRes, loopTo, requestMap, matched, dropped, messagesChan, routed>>
  ELSE
      \/ \* select: case q.messagesChan <- msg, ready at once
         /\ Len(messagesChan) < MessagesChanCap
         /\ messagesChan' = Append(messagesChan, m)
         /\ routed' = Append(routed, m)
         /\ routeErr' = "nil"
         /\ UNCHANGED <<loopPc, loopMsg, loopRes, loopTo, requestMap, matched, dropped, handlers>>
      \/ \* the send is not taken at once: the consumer channel is full (the
         \* select blocks), or q.ctx is done too (the select may take either)
         /\ Len(messagesChan) >= MessagesChanCap \/ qctxDone
         /\ loopPc' = "forward"
         /\ loopMsg' = m
         /\ UNCHANGED <<routeErr, loopRes, loopTo, requestMap, matched, dropped, messagesChan, routed, handlers>>

\* messageLoop: case msg, ok := <-messages with ok, then routeMessage(msg).
messageLoop_Receive ==
  /\ loopPc = "select"
  /\ tmessages # <<>>
  /\ tmessages' = Tail(tmessages)
  /\ routeMessage(Head(tmessages))
  /\ UNCHANGED <<stdout, stdoutEOF, nEmitted, emitted, answered, tmessagesClosed, written, ready, terr>>
  /\ UNCHANGED <<responseChan, nextRequestID, calls, callCtxDone, issued, delivered>>
  /\ UNCHANGED <<messagesChanClosed, qctxDone, stopChanClosed, stopPc, isStreamingMode, canUseTool>>
  /\ UNCHANGED <<rrvars, clvars, hvars>>

\* messageLoop returns (and the deferred close(q.readLoopDone) runs): the
\* context is done, the stop signal was given, or the transport channel is
\* closed and drained.
messageLoop_Exit ==
  /\ loopPc = "select"
  /\ \/ qctxDone
     \/ stopChanClosed
     \/ (tmessages = <<>> /\ tmessagesClosed)
  /\ loopPc' = "exited"
  /\ UNCHANGED <<loopMsg, loopRes, loopTo, routeErr, messagesChan, routed, messagesChanClosed,
                 qctxDone, stopChanClosed, stopPc, isStreamingMode, canUseTool, handlers>>
  /\ UNCHANGED <<tvars, callvars, rrvars, clvars, hvars>>

\* handleControlResponse's select: case responseChan <- responseResult{...}
handleControlResponse_Send ==
  /\ loopPc = "deliver"
  /\ Len(responseChan[loopTo]) < ResponseChanCap
  /\ responseChan' = [responseChan EXCEPT ![loopTo] = Append(responseChan[loopTo], loopRes)]
  /\ delivered' = [delivered EXCEPT ![loopMsg.rid] = delivered[loopMsg.rid] + 1]
  /\ loopPc' = "select"
  /\ loopMsg' = NoMsg
  /\ loopRes' = NoResult
  /\ loopTo' = 0
  /\ routeErr' = "nil"
  /\ UNCHANGED <<requestMap, nextRequestID, calls, callCtxDone, issued, matched, dropped>>
  /\ UNCHANGED <<messagesChan, routed, messagesChanClosed, qctxDone, stopChanClosed, stopPc,
                 isStreamingMode, canUseTool, handlers>>
  /\ UNCHANGED <<tvars, rrvars, clvars, hvars>>

\* handleControlResponse's select: case <-q.ctx.Done()
handleControlResponse_CtxDone ==
  /\ loopPc = "deliver"
  /\ qctxDone
  /\ loopPc' = "select"
  /\ loopMsg' = NoMsg
  /\ loopRes' = NoResult
  /\ loopTo' = 0
  /\ routeErr' = "nil"
  /\ UNCHANGED <<messagesChan, routed, messagesChanClosed, qctxDone, stopChanClosed, stopPc,
                 isStreamingMode, canUseTool, handlers>>
  /\ UNCHANGED <<tvars, callvars, rrvars, clvars, hvars>>

\* routeMessage's select, blocked on a full consumer channel:
\* case q.messagesChan <- msg
routeMessage_Send ==
  /\ loopPc = "forward"
  /\ Len(messagesChan) < MessagesChanCap
  /\ messagesChan' = Append(messagesChan, loopMsg)
  /\ routed' = Append(routed, loopMsg)
  /\ loopPc' = "select"
  /\ loopMsg' = NoMsg
  /\ routeErr' = "nil"
  /\ UNCHANGED <<loopRes, loopTo, messagesChanClosed, qctxDone, stopChanClosed, stopPc,
                 isStreamingMode, canUseTool, handlers>>
  /\ UNCHANGED <<tvars, callvars, rrvars, clvars, hvars>>

\* routeMessage's select: case <-q.ctx.Done(): return q.ctx.Err()
routeMessage_CtxDone ==
  /\ loopPc = "forward"
  /\ qctxDone
  /\ loopPc' = "select"
  /\ loopMsg' = NoMsg
  /\ routeErr' = "context canceled"
  /\ UNCHANGED <<loopRes, loopTo, messagesChan, routed, messagesChanClosed, qctxDone, stopChanClosed,
                 stopPc, isStreamingMode, canUseTool, handlers>>
  /\ UNCHANGED <<tvars, callvars, rrvars, clvars, hvars>>

\* ------------------------------------------------- inbound control requests
ControlResponseLine(rid, sub, val) == Msg("control_response", 0, rid, sub, val)

\* The line handleControlRequest writes for request m; cb is what the
\* permission callback returns ("allow", "deny" or "error").
handleControlRequest_Reply(m, cb) ==
  IF m.rid = 0 THEN
      ControlResponseLine(0, "error", "invalid control request format")
  ELSE IF m.sub = "can_use_tool" THEN
      IF ~canUseTool THEN
          ControlResponseLine(m.rid, "error", "canUseTool callback is not provided")
      ELSE IF cb = "error" THEN
          ControlResponseLine(m.rid, "error", "callback failed")
      ELSE ControlResponseLine(m.rid, "success", cb)
  ELSE IF m.sub \in {"interrupt", "set_permission_mode"} THEN
      ControlResponseLine(m.rid, "success", "{}")
  ELSE ControlResponseLine(m.rid, "error", "unsupported control request subtype: " \o m.sub)

\* A handleControlRequest goroutine runs to its end: the handler (and its
\* callback, however long it took) returns and the response is written.
handleControlRequest(m, cb, ok) ==
  /\ m \in handlers
  /\ handlers' = handlers \ {m}
  /\ Write(handleControlRequest_Reply(m, cb), ok)
  /\ UNCHANGED <<stdout, stdoutEOF, nEmitted, emitted, answered, tmessages, tmessagesClosed>>
  /\ UNCHANGED <<loopPc, loopMsg, loopRes, loopTo, routeErr, messagesChan, routed, messagesChanClosed,
                 qctxDone, stopChanClosed, stopPc, isStreamingMode, canUseTool>>
  /\ UNCHANGED <<callvars, rrvars, clvars, hvars>>

\* An inbound control_request.  Its n records how many conversational
\* messages the child had written before it.
ChildEmitControlRequest(rid, sub, max) ==
  /\ ChildEmit(Msg("control_request", Len(emitted), rid, sub, ""), max)
  /\ UNCHANGED answered

\* ------------------------- inbound control requests, with their payloads
\* The servers in Query.mcpServers and the IDs in Query.hookCallbacks of the
\* session modelled.
mcpServers == {"calc"}
hookCallbacks == {"hook_1", "hook_2"}

\* What a user callback returns: a PermissionResultAllow (updatedInput ""
\* is a nil UpdatedInput, permissions "" an empty UpdatedPermissions), a
\* PermissionResultDeny, an error, or a value of another type.
CallbackResult(kind, updatedInput, permissions, message, interrupt) ==
  [kind |-> kind, updatedInput |-> updatedInput, permissions |-> permissions,
   message |-> message, interrupt |-> interrupt]
Allow(updatedInput, permissions) == CallbackResult("allow", updatedInput, permissions, "", FALSE)
Deny(message, interrupt) == CallbackResult("deny", "", "", message, interrupt)
CallbackError == CallbackResult("error", "", "", "callback failed", FALSE)
OtherResult == CallbackResult("other", "", "", "", FALSE)

\* What a hook callback returns: a map (output names it), an error, or a
\* value that is not a map.
HookResult(kind, output, message) == [kind |-> kind, output |-> output, message |-> message]
HookOutput(output) == HookResult("map", output, "")

\* A call of a user callback: which one, and the tool-use ID handed to it
\* ("" is a nil *string, and what the callbacks without that parameter get).
Call(callback, toolUseID) == [callback |-> callback, toolUseID |-> toolUseID]

\* What a handler returns: (response, err); err "" is nil.  called holds the
\* call of a user callback the handler made, if it made one.
Handled(response, err, called) == [response |-> response, err |-> err, called |-> called]

\* (a variant that answers Allow with the request's own input always)
handlePermissionRequest_OriginalInput(requestData, cb) ==
  IF ~canUseTool THEN Handled(EmptyMap, "canUseTool callback is not provided", <<>>)
  ELSE IF requestData.tool_name = "" \/ requestData.input = ""
    THEN Handled(EmptyMap, "missing tool_name or input in permission request", <<>>)
  ELSE IF cb.kind = "error" THEN Handled(EmptyMap, cb.message, <<Call("canUseTool", "")>>)
  ELSE IF cb.kind = "allow" THEN
    Handled(MapPut(MapPut(EmptyMap, "behavior", "allow"), "updatedInput", requestData.input),
            "", <<Call("canUseTool", "")>>)
  ELSE IF cb.kind = "deny" THEN
    Handled(MapPut(MapPut(EmptyMap, "behavior", "deny"), "message", cb.message), "", <<Call("canUseTool", "")>>)
  ELSE Handled(EmptyMap, "permission callback returned invalid type", <<Call("canUseTool", "")>>)

\* Query.handlePermissionRequest; cb is what q.canUseTool returns when it
\* is called.
handlePermissionRequest(requestData, cb) ==
  IF ~canUseTool THEN Handled(EmptyMap, "canUseTool callback is not provided", <<>>)
  ELSE IF requestData.tool_name = "" \/ requestData.input = ""
    THEN Handled(EmptyMap, "missing tool_name or input in permission request", <<>>)
  ELSE IF cb.kind = "error" THEN Handled(EmptyMap, cb.message, <<Call("canUseTool", "")>>)
  ELSE IF cb.kind = "allow" THEN
    LET r1 == MapPut(EmptyMap, "behavior", "allow")
        r2 == MapPut(r1, "updatedInput",
                     IF cb.updatedInput # "" THEN cb.updatedInput ELSE requestData.input)
        r3 == IF cb.permissions # "" THEN MapPut(r2, "updatedPermissions", cb.permissions) ELSE r2
    IN Handled(r3, "", <<Call("canUseTool", "")>>)
  ELSE IF cb.kind = "deny" THEN
    LET r1 == MapPut(EmptyMap, "behavior", "deny")
        r2 == IF cb.message # "" THEN MapPut(r1, "message", cb.message) ELSE r1
        r3 == IF cb.interrupt THEN MapPut(r2, "interrupt", "true") ELSE r2
    IN Handled(r3, "", <<Call("canUseTool", "")>>)
  ELSE Handled(EmptyMap, "permission callback returned invalid type", <<Call("canUseTool", "")>>)

\* The JSON-RPC error object handleMCPMessage builds.
JSONRPCError(id, code, message) ==
  [jsonrpc |-> "2.0", id |-> id, code |-> code, message |-> message, result |-> ""]
\* What a server's HandleMessage returns when it succeeds.
JSONRPCResult(id) == [jsonrpc |-> "2.0", id |-> id, code |-> 0, message |-> "", result |-> "done"]

\* Query.handleMCPMessage; h is what server.HandleMessage returns when it is
\* called ("ok" or "error").
handleMCPMessage(requestData, h) ==
  IF requestData.server_name = "" \/ requestData.message = 0
    THEN Handled(EmptyMap, "missing server_name or message in MCP request", <<>>)
  ELSE IF requestData.server_name \notin mcpServers
    THEN Handled(MapPut(EmptyMap, "mcp_response",
                        JSONRPCError(requestData.message, -32601,
                                     "Server '" \o requestData.server_name \o "' not found")),
                 "", <<>>)
  ELSE IF h = "error"
    THEN Handled(MapPut(EmptyMap, "mcp_response",
                        JSONRPCError(requestData.message, -32603, "handler failed")),
                 "", <<Call("mcp:" \o requestData.server_name, "")>>)
  ELSE Handled(MapPut(EmptyMap, "mcp_response", JSONRPCResult(requestData.message)),
               "", <<Call("mcp:" \o requestData.server_name, "")>>)

\* requestData["tool_use_id"].(*string): the request data is what
\* json.Unmarshal built, where a JSON string is a Go string and never a
\* *string, so the assertion fails for every value and leaves nil ("").
AssertStringPointer(v) == ""

\* Query.handleHookCallback; hk is what the hook returns when it is called
\* (the response is its output map, modelled by the one key "output").
handleHookCallback(requestData, hk) ==
  LET toolUseID == AssertStringPointer(requestData.tool_use_id)
      call == Call("hook:" \o requestData.callback_id, toolUseID)
  IN IF requestData.callback_id = ""
       THEN Handled(EmptyMap, "missing callback_id in hook callback request", <<>>)
     ELSE IF requestData.callback_id \notin hookCallbacks
       THEN Handled(EmptyMap, "no hook callback found for ID: " \o requestData.callback_id, <<>>)
     ELSE IF hk.kind = "error" THEN Handled(EmptyMap, hk.message, <<call>>)
     ELSE IF hk.kind # "map"
       THEN Handled(EmptyMap, "hook callback must return map[string]interface{}", <<call>>)
     ELSE Handled(MapPut(EmptyMap, "output", hk.output), "", <<call>>)

\* The lines sendSuccessResponse and sendErrorResponse write.
ControlResponseWire(sub, requestID, response, error) ==
  [type |-> "control_response", subtype |-> sub, request_id |-> requestID,
   response |-> response, error |-> error]
SuccessResponse(requestID, response) == ControlResponseWire("success", requestID, response, "")
ErrorResponse(requestID, errorMsg) == ControlResponseWire("error", requestID, EmptyMap, errorMsg)

\* handleControlRequest's dispatch on the subtype.
handleControlRequest_Dispatch(requestData, cb, h, hk) ==
  IF requestData.subtype = "can_use_tool" THEN handlePermissionRequest(requestData, cb)
  ELSE IF requestData.subtype = "hook_callback" THEN handleHookCallback(requestData, hk)
  ELSE IF requestData.subtype = "mcp_message" THEN handleMCPMessage(requestData, h)
  ELSE IF requestData.subtype \in {"interrupt", "set_permission_mode"}
    THEN Handled(EmptyMap, "", <<>>)
  ELSE Handled(EmptyMap, "unsupported control request subtype: " \o requestData.subtype, <<>>)

\* The request ID handleControlRequest works with: msg.Data["request_id"],
\* else msg.Request["request_id"], else "" (0 here).
handleControlRequest_RequestID(msg) ==
  IF msg.data.request_id # 0 THEN msg.data.request_id ELSE msg.request.request_id

\* What handleControlRequest does with the decoded request msg: the line
\* it writes and the callbacks it calls on the way.
handleControlRequest_Handle(msg, cb, h, hk) ==
  LET requestID == handleControlRequest_RequestID(msg)
  IN IF requestID = 0 \/ ~msg.request.present
       THEN [line |-> ErrorResponse(requestID, "invalid control request format"), called |-> <<>>]
       ELSE LET r == handleControlRequest_Dispatch(msg.request, cb, h, hk)
            IN [line  |-> IF r.err # "" THEN ErrorResponse(requestID, r.err)
                          ELSE SuccessResponse(requestID, r.response),
                called |-> r.called]

\* A handleControlRequest goroutine, for a request with its payload, runs to
\* its end: the handler and the callback it calls return, and the response
\* is written (the result of the write is ignored).
handleControlRequest_Run(msg, cb, h, hk, ok) ==
  /\ msg \in handlers
  /\ handlers' = handlers \ {msg}
  /\ LET r == handleControlRequest_Handle(msg, cb, h, hk)
     IN /\ Write(r.line, ok)
        /\ invoked' = invoked \o r.called
  /\ UNCHANGED <<stdout, stdoutEOF, nEmitted, emitted, answered, tmessages, tmessagesClosed>>
  /\ UNCHANGED <<loopPc, loopMsg, loopRes, loopTo, routeErr, messagesChan, routed, messagesChanClosed,
                 qctxDone, stopChanClosed, stopPc, isStreamingMode, canUseTool>>
  /\ UNCHANGED <<callvars, rrvars, clvars, initialized, initializeResult, initCall, options, client>>

\* The child writes a control_request line with its payload.
ChildEmitRequest(line, max) ==
  /\ ChildEmit(line, max)
  /\ UNCHANGED answered

\* The context NewQuery derived q.ctx from (and the transport its process
\* context) is cancelled: q.ctx is done and the child process is killed, so
\* its output ends.
CancelSession ==
  /\ ~qctxDone
  /\ qctxDone' = TRUE
  /\ stdoutEOF' = TRUE
  /\ UNCHANGED <<stdout, nEmitted, emitted, answered, tmessages, tmessagesClosed, written, ready, terr>>
  /\ UNCHANGED <<loopPc, loopMsg, loopRes, loopTo, routeErr, messagesChan, routed, messagesChanClosed,
                 stopChanClosed, stopPc, isStreamingMode, canUseTool, handlers>>
  /\ UNCHANGED <<callvars, rrvars, clvars, hvars>>

\* The context handed to NewQuery is cancelled.  Query.ctx derives from it,
\* and the calls of the router run under it too: Connect passes the one
\* context to NewQuery and to Initialize.
CancelContext ==
  /\ ~qctxDone
  /\ qctxDone' = TRUE
  /\ callCtxDone' = [c \in Callers |-> TRUE]
  /\ UNCHANGED <<requestMap, responseChan, nextRequestID, calls, issued, delivered, matched, dropped>>
  /\ UNCHANGED <<loopPc, loopMsg, loopRes, loopTo, routeErr, messagesChan, routed, messagesChanClosed,
                 stopChanClosed, stopPc, isStreamingMode, canUseTool, handlers>>
  /\ UNCHANGED <<tvars, rrvars, clvars, hvars>>

\* -------------------------------------------------------------------- Stop
\* Query.Stop up to its wait: close(q.stopChan) unless already closed, then
\* q.cancel().
Stop_Signal ==
  /\ stopPc = "idle"
  /\ IF stopChanClosed
       THEN stopPc' = "done" /\ UNCHANGED <<stopChanClosed, qctxDone>>
       ELSE stopChanClosed' = TRUE /\ qctxDone' = TRUE /\ stopPc' = "wait"
  /\ UNCHANGED <<loopPc, loopMsg, loopRes, loopTo, routeErr, messagesChan, routed, messagesChanClosed,
                 isStreamingMode, canUseTool, handlers>>
  /\ UNCHANGED <<tvars, callvars, rrvars, clvars, hvars>>

\* Query.Stop: case <-q.readLoopDone, then close(q.messagesChan).
Stop_Close ==
  /\ stopPc = "wait"
  /\ loopPc = "exited"
  /\ messagesChanClosed' = TRUE
  /\ stopPc' = "done"
  /\ UNCHANGED <<loopPc, loopMsg, loopRes, loopTo, routeErr, messagesChan, routed, qctxDone,
                 stopChanClosed, isStreamingMode, canUseTool, handlers>>
  /\ UNCHANGED <<tvars, callvars, rrvars, clvars, hvars>>

\* The application calls Stop once more, after the previous call returned,
\* with a context of its own that is live or already done (a deadline that
\* has passed).  nStop counts these calls.
Stop_Again(ctxDone) ==
  /\ stopPc \in {"done", "canceled"}
  /\ nStop < MaxStops
  /\ nStop' = nStop + 1
  /\ stopPc' = "idle"
  /\ connCtxDone' = ctxDone
  /\ UNCHANGED <<loopPc, loopMsg, loopRes, loopTo, routeErr, messagesChan, routed, messagesChanClosed,
                 qctxDone, stopChanClosed, isStreamingMode, canUseTool, handlers>>
  /\ UNCHANGED <<clPc, opRes, nOps, cquery, cctxDone, tcmd, nSpawned, nReaders, stderr, nTClose,
                 connectTrace, nOutClose, queryPc, tctxDone>>
  /\ UNCHANGED <<tvars, callvars, rrvars, hvars>>

\* The context passed to the Stop call that is waiting is done (its deadline
\* passes, or the application cancels it).
CancelStop ==
  /\ stopPc = "wait" /\ ~connCtxDone
  /\ connCtxDone' = TRUE
  /\ UNCHANGED <<clPc, opRes, nOps, cquery, cctxDone, tcmd, nSpawned, nReaders, stderr, nStop,
                 nTClose, connectTrace, nOutClose, queryPc, tctxDone>>
  /\ UNCHANGED <<tvars, callvars, loopvars, rrvars, routed, hvars>>

\* --------------------------------------------------- Client.ReceiveResponse
\* The send on outputChan and what follows it: return (and the deferred
\* close(outputChan)) after a ResultMessage, else back to the select.
ReceiveResponse_Forward(m) ==
  /\ outputChan' = Append(outputChan, m)
  /\ rrHeld' = NoMsg
  /\ rrPc' = IF IsResult(m) THEN "closed" ELSE "recv"
  /\ outputClosed' = IsResult(m)

\* The application calls ReceiveResponse (after it has read the previous
\* channel to its close) with its context: a new outputChan and forwarding
\* goroutine, which returns at once unless the client is connected.
ReceiveResponse ==
  /\ rrPc \in {"none", "closed"}
  /\ outputChan = <<>>
  /\ Len(consumed) < MaxCycles
  /\ consumed' = Append(consumed, <<>>)
  /\ UNCHANGED rrCtxDone
  /\ rrHeld' = NoMsg
  /\ outputChan' = <<>>
  /\ IF connected
       THEN rrPc' = "recv" /\ outputClosed' = FALSE
       ELSE rrPc' = "closed" /\ outputClosed' = TRUE
  /\ UNCHANGED <<connected, clvars, hvars>>
  /\ UNCHANGED <<tvars, callvars, loopvars, routed>>

\* case msg, ok := <-messagesChan with ok, then the select on outputChan
ReceiveResponse_Receive ==
  /\ rrPc = "recv"
  /\ messagesChan # <<>>
  /\ messagesChan' = Tail(messagesChan)
  /\ UNCHANGED routed
  /\ \/ /\ Len(outputChan) < OutputChanCap
        /\ ReceiveResponse_Forward(Head(messagesChan))
     \/ /\ Len(outputChan) >= OutputChanCap \/ rrCtxDone
        /\ rrHeld' = Head(messagesChan)
        /\ rrPc' = "send"
        /\ UNCHANGED <<outputChan, outputClosed>>
  /\ UNCHANGED <<rrCtxDone, consumed, connected, clvars, hvars>>
  /\ UNCHANGED <<loopPc, loopMsg, loopRes, loopTo, routeErr, messagesChanClosed,
                 qctxDone, stopChanClosed, stopPc, isStreamingMode, canUseTool, handlers>>
  /\ UNCHANGED <<tvars, callvars>>

\* blocked on a full outputChan: case outputChan <- msg
ReceiveResponse_Send ==
  /\ rrPc = "send"
  /\ Len(outputChan) < OutputChanCap
  /\ ReceiveResponse_Forward(rrHeld)
  /\ UNCHANGED <<rrCtxDone, consumed, connected, clvars, hvars>>
  /\ UNCHANGED <<tvars, callvars, loopvars, routed>>

\* case <-ctx.Done() of either select, or the router's channel is closed and
\* drained: return, and the deferred close(outputChan).
ReceiveResponse_Return ==
  /\ \/ rrPc \in {"recv", "send"} /\ rrCtxDone
     \/ rrPc = "recv" /\ messagesChan = <<>> /\ messagesChanClosed
  /\ rrPc' = "closed"
  /\ rrHeld' = NoMsg
  /\ outputClosed' = TRUE
  /\ UNCHANGED <<rrCtxDone, outputChan, consumed, connected, clvars, hvars>>
  /\ UNCHANGED <<tvars, callvars, loopvars, routed>>

\* The application cancels the context it passed to ReceiveResponse.
CancelReceive ==
  /\ rrPc \in {"recv", "send"}
  /\ ~rrCtxDone
  /\ rrCtxDone' = TRUE
  /\ UNCHANGED <<rrPc, rrHeld, outputChan, outputClosed, consumed, connected, clvars, hvars>>
  /\ UNCHANGED <<tvars, callvars, loopvars, routed>>

\* The application reads one message from the channel ReceiveResponse returned.
AppRead ==
  /\ outputChan # <<>>
  /\ outputChan' = Tail(outputChan)
  /\ consumed' = [consumed EXCEPT ![Len(consumed)] = Append(@, Head(outputChan))]
  /\ UNCHANGED <<rrPc, rrHeld, rrCtxDone, outputClosed, connected, clvars, hvars>>
  /\ UNCHANGED <<tvars, callvars, loopvars, routed>>

\* A consumer that reads Query.GetMessages() directly, as the router's tests
\* do.
GetMessages_Read ==
  /\ messagesChan # <<>>
  /\ messagesChan' = Tail(messagesChan)
  /\ consumed' = IF consumed = <<>> THEN <<<<Head(messagesChan)>>>>
                 ELSE [consumed EXCEPT ![Len(consumed)] = Append(@, Head(messagesChan))]
  /\ UNCHANGED <<connected, clvars, hvars, rrPc, rrHeld, rrCtxDone, outputChan, outputClosed>>
  /\ UNCHANGED <<loopPc, loopMsg, loopRes, loopTo, routeErr, routed, messagesChanClosed,
                 qctxDone, stopChanClosed, stopPc, isStreamingMode, canUseTool, handlers>>
  /\ UNCHANGED <<tvars, callvars>>

\* ------------------------------------------------- transport: the process
\* SubprocessCLITransport.Connect, the caller holding t.mu.  spawned is
\* whether the pipes can be made and cmd.Start succeeds.  t.cmd is assigned
\* before either can fail, and a non-nil t.cmd makes every later call a
\* no-op.
TransportConnectError(spawned) ==
  IF tcmd \/ spawned THEN "" ELSE "failed to start subprocess"

\* (a variant without the t.cmd check: every call starts a child)
TransportConnect_Respawn(spawned) ==
  /\ tcmd' = TRUE
  /\ IF spawned
       THEN nSpawned' = nSpawned + 1 /\ nReaders' = nReaders + 2 /\ ready' = TRUE
       ELSE UNCHANGED <<nSpawned, nReaders, ready>>

TransportConnect(spawned) ==
  IF tcmd
    THEN UNCHANGED <<tcmd, nSpawned, nReaders, ready>>
    ELSE /\ tcmd' = TRUE
         /\ IF spawned
              THEN nSpawned' = nSpawned + 1 /\ nReaders' = nReaders + 2 /\ ready' = TRUE
              ELSE UNCHANGED <<nSpawned, nReaders, ready>>

\* SubprocessCLITransport.Close: nothing when t.cmd is nil; else ready =
\* false, t.cancel() (which kills the child, so that its output ends) and the
\* wait for its exit.  nTClose counts the calls.
TransportClose ==
  /\ nTClose' = nTClose + 1
  /\ tctxDone' = IF tcmd THEN TRUE ELSE tctxDone
  /\ ready' = IF tcmd THEN FALSE ELSE ready
  /\ stdoutEOF' = IF tcmd THEN TRUE ELSE stdoutEOF

\* SubprocessCLITransport.OnError: the error is stored only while t.err is nil.
OnError(e) == terr' = IF terr = "" THEN e ELSE terr

\* A line of the child's diagnostic stream: whether it holds the text "No
\* conversation found with session ID:" and the first token after it.
StderrLine(pattern, sid) == [pattern |-> pattern, sid |-> sid]

\* extractSessionNotFoundError: matched only if a token follows the pattern.
extractSessionNotFoundError(line) ==
  IF line.pattern /\ line.sid # "" THEN <<TRUE, line.sid>> ELSE <<FALSE, "">>

\* SessionNotFoundError.Error() of the error parseStderrError makes.
SessionNotFoundError(sid) ==
  "Claude CLI could not find this conversation (session ID: " \o sid \o ")"

\* parseStderrError
parseStderrError(line) ==
  IF extractSessionNotFoundError(line)[1]
    THEN OnError(SessionNotFoundError(extractSessionNotFoundError(line)[2]))
    ELSE UNCHANGED terr

\* The child, just spawned, cannot resume its session: it writes the line on
\* its diagnostic stream and exits, having written nothing on its output.
ChildReportFatal(line) ==
  /\ ready /\ ~stdoutEOF /\ nEmitted = 0
  /\ Len(stderr) < MaxStderr
  /\ stderr' = Append(stderr, line)
  /\ stdoutEOF' = TRUE
  /\ UNCHANGED <<stdout, nEmitted, emitted, answered, tmessages, tmessagesClosed, written, ready, terr>>
  /\ UNCHANGED <<clPc, opRes, nOps, cquery, cctxDone, connCtxDone, tcmd, nSpawned, nReaders,
                 nStop, nTClose, tctxDone, hvars, connectTrace, nOutClose, queryPc>>
  /\ UNCHANGED <<callvars, loopvars, rrvars, routed>>

\* readStderr: ReadLine and parseStderrError for one line.
readStderr_Line ==
  /\ stderr # <<>>
  /\ stderr' = Tail(stderr)
  /\ parseStderrError(Head(stderr))
  /\ UNCHANGED <<stdout, stdoutEOF, nEmitted, emitted, answered, tmessages, tmessagesClosed, written, ready>>
  /\ UNCHANGED <<clPc, opRes, nOps, cquery, cctxDone, connCtxDone, tcmd, nSpawned, nReaders,
                 nStop, nTClose, tctxDone, hvars, connectTrace, nOutClose, queryPc>>
  /\ UNCHANGED <<callvars, loopvars, rrvars, routed>>

\* ------------------------------------------------------- client lifecycle
\* Every Client method takes c.mu first; Connect and Close hold it until
\* they return (clPc # "idle"), Query and QueryWithContent only for the
\* connection check.
OpResult(op, err) == [op |-> op, err |-> err]
NoQuery == [op |-> "none", content |-> ""]

\* ---------------------------------------------------------------- NewClient
\* The fields of ClaudeAgentOptions that NewClient reads: whether CanUseTool
\* is set, PermissionPromptToolName and Resume ("nil" is a nil pointer),
\* and whether CLIPath is set.
ClaudeAgentOptions(callback, tool, cliPath, resume) ==
  [canUseTool |-> callback, permissionPromptToolName |-> tool, cliPath |-> cliPath,
   resume |-> resume]

\* What NewClient returns: (nil, err), or a client with its options and the
\* session ID its transport will resume.
NoClient == [made |-> FALSE, err |-> "",
             options |-> ClaudeAgentOptions(FALSE, "nil", FALSE, "nil"), resumeID |-> ""]
NewClientError(e) == [NoClient EXCEPT !.err = e]

\* (a variant without the check of the two permission options)
NewClient_NoValidation(found) ==
  /\ nOps < MaxOps
  /\ nOps' = nOps + 1
  /\ LET opts == IF options.canUseTool /\ options.permissionPromptToolName = "nil"
                   THEN [options EXCEPT !.permissionPromptToolName = "stdio"]
                   ELSE options
     IN /\ options' = opts
        /\ client' = IF ~opts.cliPath /\ ~found
                       THEN NewClientError("Claude Code CLI not found")
                       ELSE [made |-> TRUE, err |-> "", options |-> opts,
                             resumeID |-> IF opts.resume = "nil" THEN "" ELSE opts.resume]
  /\ opRes' = OpResult("NewClient", client'.err)
  /\ UNCHANGED <<clPc, cquery, cctxDone, connCtxDone, tcmd, nSpawned, nReaders, stderr, nStop,
                 nTClose, connectTrace, nOutClose, queryPc, tctxDone>>
  /\ UNCHANGED <<invoked, initialized, initializeResult, initCall>>
  /\ UNCHANGED <<tvars, callvars, loopvars, rrvars, routed>>

\* NewClient(ctx, options); found is whether FindCLI locates the CLI when
\* the options give no path.  The options object is the caller's: what
\* NewClient assigns to it, the caller's object holds afterwards.
NewClient(found) ==
  /\ nOps < MaxOps
  /\ nOps' = nOps + 1
  /\ IF options.canUseTool /\ options.permissionPromptToolName # "nil"
       THEN /\ client' = NewClientError(
                            "can_use_tool callback cannot be used with permission_prompt_tool_name")
            /\ UNCHANGED options
       ELSE LET opts == IF options.canUseTool
                          THEN [options EXCEPT !.permissionPromptToolName = "stdio"]
                          ELSE options
            IN /\ options' = opts
               /\ client' = IF ~opts.cliPath /\ ~found
                              THEN NewClientError("Claude Code CLI not found")
                              ELSE [made |-> TRUE, err |-> "", options |-> opts,
                                    resumeID |-> IF opts.resume = "nil" THEN "" ELSE opts.resume]
  /\ opRes' = OpResult("NewClient", client'.err)
  /\ UNCHANGED <<clPc, cquery, cctxDone, connCtxDone, tcmd, nSpawned, nReaders, stderr, nStop,
                 nTClose, connectTrace, nOutClose, queryPc, tctxDone>>
  /\ UNCHANGED <<invoked, initialized, initializeResult, initCall>>
  /\ UNCHANGED <<tvars, callvars, loopvars, rrvars, routed>>

\* (a variant without the c.connected check)
Connect_Begin_Unchecked(spawned) ==
  /\ clPc = "idle" /\ nOps < MaxOps
  /\ nOps' = nOps + 1
  /\ TransportConnect(spawned)
  /\ connCtxDone' = FALSE
  /\ IF TransportConnectError(spawned) # ""
       THEN /\ opRes' = OpResult("Connect", "failed to connect to Claude CLI")
            /\ connectTrace' = <<>>
            /\ UNCHANGED clPc
       ELSE /\ clPc' = "conn_check"
            /\ connectTrace' = <<"transport">>
            /\ UNCHANGED opRes
  /\ UNCHANGED <<stdout, stdoutEOF, nEmitted, emitted, answered, tmessages, tmessagesClosed, written, terr>>
  /\ UNCHANGED <<cquery, cctxDone, stderr, nStop, nTClose, tctxDone, hvars, nOutClose, queryPc>>
  /\ UNCHANGED <<callvars, loopvars, rrvars, routed>>

\* Client.Connect up to the return of transport.Connect.  The context passed
\* is live at the call.
Connect_Begin(spawned) ==
  /\ clPc = "idle" /\ nOps < MaxOps
  /\ nOps' = nOps + 1
  /\ IF connected
       THEN /\ opRes' = OpResult("Connect", "client already connected")
            /\ UNCHANGED <<clPc, connCtxDone, connectTrace, tcmd, nSpawned, nReaders, ready>>
       ELSE /\ TransportConnect(spawned)
            /\ connCtxDone' = FALSE
            /\ IF TransportConnectError(spawned) # ""
                 THEN /\ opRes' = OpResult("Connect", "failed to connect to Claude CLI")
                      /\ connectTrace' = <<>>
                      /\ UNCHANGED clPc
                 ELSE /\ clPc' = "conn_check"
                      /\ connectTrace' = <<"transport">>
                      /\ UNCHANGED opRes
  /\ UNCHANGED <<stdout, stdoutEOF, nEmitted, emitted, answered, tmessages, tmessagesClosed, written, terr>>
  /\ UNCHANGED <<cquery, cctxDone, stderr, nStop, nTClose, tctxDone, hvars, nOutClose, queryPc>>
  /\ UNCHANGED <<callvars, loopvars, rrvars, routed>>

\* The caller cancels the context it passed to the running Connect or Close.
\* Connect hands the same context to NewQuery (Query.ctx derives from it) and
\* to Initialize.
CancelConnect ==
  /\ clPc # "idle" /\ ~connCtxDone
  /\ connCtxDone' = TRUE
  /\ IF clPc \in {"conn_init", "conn_call", "fail_stop"}
       THEN /\ qctxDone' = TRUE
            /\ callCtxDone' = [callCtxDone EXCEPT ![1] = TRUE]
       ELSE UNCHANGED <<qctxDone, callCtxDone>>
  /\ UNCHANGED <<requestMap, responseChan, nextRequestID, calls, issued, delivered, matched, dropped>>
  /\ UNCHANGED <<loopPc, loopMsg, loopRes, loopTo, routeErr, messagesChan, messagesChanClosed,
                 stopChanClosed, stopPc, isStreamingMode, canUseTool, handlers>>
  /\ UNCHANGED <<clPc, opRes, nOps, cquery, cctxDone, tcmd, nSpawned, nReaders, stderr,
                 nStop, nTClose, tctxDone, hvars, connectTrace, nOutClose, queryPc>>
  /\ UNCHANGED <<tvars, rrvars, routed>>

\* Connect's select after transport.Connect: case <-c.ctx.Done() closes the
\* transport and returns ctx.Err() of the context passed to Connect; default
\* reads the sticky error once, without waiting.
Connect_Check ==
  /\ clPc = "conn_check"
  /\ IF cctxDone
       THEN /\ TransportClose
            /\ opRes' = OpResult("Connect", IF connCtxDone THEN "context canceled" ELSE "")
            /\ clPc' = "idle"
            /\ UNCHANGED connectTrace
       ELSE IF terr # ""
         THEN /\ TransportClose
              /\ opRes' = OpResult("Connect", terr)
              /\ clPc' = "idle"
              /\ UNCHANGED connectTrace
         ELSE /\ clPc' = "conn_start"
              /\ connectTrace' = Append(connectTrace, "check")
              /\ UNCHANGED <<opRes, nTClose, tctxDone, ready, stdoutEOF>>
  /\ UNCHANGED <<stdout, nEmitted, emitted, answered, tmessages, tmessagesClosed, written, terr>>
  /\ UNCHANGED <<nOps, cquery, cctxDone, connCtxDone, tcmd, nSpawned, nReaders, stderr, nStop,
                 nOutClose, queryPc>>
  /\ UNCHANGED <<callvars, loopvars, rrvars, routed, hvars>>

\* c.query = NewQuery(ctx, ..., true) and c.query.Start: a fresh router (a
\* fresh request map, counter and channels) whose context derives from the
\* context passed to Connect, and its message loop.
Connect_Start ==
  /\ clPc = "conn_start"
  /\ requestMap' = [i \in MapIDs |-> 0]
  /\ responseChan' = [c \in Callers |-> <<>>]
  /\ nextRequestID' = 0
  /\ calls' = [c \in Callers |-> [pc |-> "idle", id |-> 0, res |-> NoResult]]
  /\ callCtxDone' = [c \in Callers |-> connCtxDone]
  /\ loopPc' = "select" /\ loopMsg' = NoMsg /\ loopRes' = NoResult /\ loopTo' = 0
  /\ routeErr' = "nil"
  /\ messagesChan' = <<>> /\ messagesChanClosed' = FALSE
  /\ qctxDone' = connCtxDone /\ stopChanClosed' = FALSE /\ stopPc' = "idle"
  /\ isStreamingMode' = TRUE
  /\ handlers' = {}
  /\ cquery' = TRUE
  /\ clPc' = "conn_init"
  /\ connectTrace' = Append(connectTrace, "start")
  /\ initialized' = FALSE /\ initializeResult' = NoResult
  /\ UNCHANGED <<issued, delivered, matched, dropped, canUseTool, routed, invoked, initCall,
                 options, client>>
  /\ UNCHANGED <<opRes, nOps, cctxDone, connCtxDone, tcmd, nSpawned, nReaders, stderr, nStop,
                 nTClose, tctxDone, nOutClose, queryPc>>
  /\ UNCHANGED <<tvars, rrvars>>

\* Query.Initialize up to its call of sendControlRequest (the router is in
\* streaming mode and not initialized yet).
Initialize_Begin ==
  /\ clPc = "conn_init"
  /\ clPc' = "conn_call"
  /\ connectTrace' = Append(connectTrace, "initialize")
  /\ UNCHANGED <<opRes, nOps, cquery, cctxDone, connCtxDone, tcmd, nSpawned, nReaders, stderr,
                 nStop, nTClose, tctxDone, hvars, nOutClose, queryPc>>
  /\ UNCHANGED <<tvars, callvars, loopvars, rrvars, routed>>

\* Initialize's sendControlRequest, as call 1 of the router.
Initialize_Call ==
  /\ clPc = "conn_call"
  /\ \/ sendControlRequest_Begin(1)
     \/ sendControlRequest_Register(1)
     \/ \E ok \in BOOLEAN : sendControlRequest_Write(1, ok)
     \/ sendControlRequest_Receive(1)
     \/ sendControlRequest_Cancelled(1)

\* (a variant that marks the client connected whatever Initialize returned)
Connect_Finish_Unchecked ==
  /\ clPc = "conn_call" /\ calls[1].pc = "done"
  /\ connected' = TRUE
  /\ opRes' = OpResult("Connect", "")
  /\ clPc' = "idle"
  /\ connectTrace' = Append(connectTrace, "connected")
  /\ IF calls[1].res.kind = "ok"
       THEN initialized' = TRUE /\ initializeResult' = calls[1].res
       ELSE UNCHANGED <<initialized, initializeResult>>
  /\ UNCHANGED <<nStop, nOps, cquery, cctxDone, connCtxDone, tcmd, nSpawned, nReaders, stderr,
                 nTClose, tctxDone, invoked, initCall, options, client, nOutClose, queryPc>>
  /\ UNCHANGED <<rrPc, rrHeld, rrCtxDone, outputChan, outputClosed, consumed>>
  /\ UNCHANGED <<tvars, callvars, loopvars, routed>>

\* Initialize returned: c.connected = true on success, else Connect goes on
\* to c.query.Stop(ctx).
Connect_Finish ==
  /\ clPc = "conn_call" /\ calls[1].pc = "done"
  /\ IF calls[1].res.kind = "ok"
       THEN /\ connected' = TRUE
            /\ opRes' = OpResult("Connect", "")
            /\ clPc' = "idle"
            /\ connectTrace' = Append(connectTrace, "connected")
            /\ initialized' = TRUE /\ initializeResult' = calls[1].res
            /\ UNCHANGED nStop
       ELSE /\ clPc' = "fail_stop"
            /\ nStop' = nStop + 1
            /\ UNCHANGED <<connected, opRes, connectTrace, initialized, initializeResult>>
  /\ UNCHANGED <<nOps, cquery, cctxDone, connCtxDone, tcmd, nSpawned, nReaders, stderr,
                 nTClose, tctxDone, invoked, initCall, options, client, nOutClose, queryPc>>
  /\ UNCHANGED <<rrPc, rrHeld, rrCtxDone, outputChan, outputClosed, consumed>>
  /\ UNCHANGED <<tvars, callvars, loopvars, routed>>

\* The Query.Stop that Connect's failure path and Close make.
Client_Stop ==
  /\ clPc \in {"fail_stop", "close_stop"}
  /\ \/ Stop_Signal
     \/ Stop_Close

\* Query.Stop's wait: case <-ctx.Done(): return ctx.Err(), leaving
\* messagesChan open (ctx is the context of the call that made the Stop).
Stop_CtxDone ==
  /\ stopPc = "wait"
  /\ connCtxDone
  /\ stopPc' = "canceled"
  /\ UNCHANGED <<loopPc, loopMsg, loopRes, loopTo, routeErr, messagesChan, routed, messagesChanClosed,
                 qctxDone, stopChanClosed, isStreamingMode, canUseTool, handlers>>
  /\ UNCHANGED <<tvars, callvars, rrvars, clvars, hvars>>

\* (a variant of the failure path that returns without transport.Close)
Connect_FailClose_NoClose ==
  /\ clPc = "fail_stop" /\ stopPc \in {"done", "canceled"}
  /\ opRes' = OpResult("Connect", "failed to initialize control protocol")
  /\ clPc' = "idle"
  /\ UNCHANGED <<stdout, stdoutEOF, nEmitted, emitted, answered, tmessages, tmessagesClosed,
                 written, ready, terr>>
  /\ UNCHANGED <<nOps, cquery, cctxDone, connCtxDone, tcmd, nSpawned, nReaders, stderr, nStop,
                 nTClose, tctxDone, connectTrace, nOutClose, queryPc>>
  /\ UNCHANGED <<callvars, loopvars, rrvars, routed, hvars>>

\* Connect's failure path after Stop: transport.Close and the return.
Connect_FailClose ==
  /\ clPc = "fail_stop" /\ stopPc \in {"done", "canceled"}
  /\ TransportClose
  /\ opRes' = OpResult("Connect", "failed to initialize control protocol")
  /\ clPc' = "idle"
  /\ UNCHANGED <<stdout, nEmitted, emitted, answered, tmessages, tmessagesClosed, written, terr>>
  /\ UNCHANGED <<nOps, cquery, cctxDone, connCtxDone, tcmd, nSpawned, nReaders, stderr, nStop,
                 connectTrace, nOutClose, queryPc>>
  /\ UNCHANGED <<callvars, loopvars, rrvars, routed, hvars>>

\* (a variant of Close without the connected check)
Close_Begin_Unchecked ==
  /\ clPc = "idle" /\ nOps < MaxOps
  /\ nOps' = nOps + 1
  /\ clPc' = "close_stop"
  /\ connCtxDone' = FALSE
  /\ nStop' = nStop + 1
  /\ UNCHANGED opRes
  /\ UNCHANGED <<cquery, cctxDone, tcmd, nSpawned, nReaders, stderr, nTClose, tctxDone, hvars, connectTrace,
                 nOutClose, queryPc>>
  /\ UNCHANGED <<tvars, callvars, loopvars, rrvars, routed>>

\* Client.Close up to its call of c.query.Stop: nil at once when the client
\* is not connected.
Close_Begin ==
  /\ clPc = "idle" /\ nOps < MaxOps
  /\ nOps' = nOps + 1
  /\ IF ~connected
       THEN /\ opRes' = OpResult("Close", "")
            /\ UNCHANGED <<clPc, connCtxDone, nStop>>
       ELSE /\ clPc' = "close_stop"
            /\ connCtxDone' = FALSE
            /\ nStop' = nStop + 1
            /\ UNCHANGED opRes
  /\ UNCHANGED <<cquery, cctxDone, tcmd, nSpawned, nReaders, stderr, nTClose, tctxDone, hvars, connectTrace,
                 nOutClose, queryPc>>
  /\ UNCHANGED <<tvars, callvars, loopvars, rrvars, routed>>

\* Close after Stop returned: c.query = nil, transport.Close, c.cancel(),
\* c.connected = false; the first error of the two is returned.  exited is
\* whether the child exited without error.
Close_Finish(exited) ==
  /\ clPc = "close_stop" /\ stopPc \in {"done", "canceled"}
  /\ cquery' = FALSE
  /\ TransportClose
  /\ cctxDone' = TRUE
  /\ connected' = FALSE
  /\ opRes' = OpResult("Close",
                 IF stopPc = "canceled" THEN "context canceled"
                 ELSE IF exited THEN "" ELSE "subprocess exited with error")
  /\ clPc' = "idle"
  /\ UNCHANGED <<stdout, nEmitted, emitted, answered, tmessages, tmessagesClosed, written, terr>>
  /\ UNCHANGED <<nOps, connCtxDone, tcmd, nSpawned, nReaders, stderr, nStop, connectTrace,
                 nOutClose, queryPc>>
  /\ UNCHANGED <<rrPc, rrHeld, rrCtxDone, outputChan, outputClosed, consumed>>
  /\ UNCHANGED <<callvars, loopvars, routed, hvars>>

\* The user line Query and QueryWithContent build from a non-empty input.
UserLine(content) == Msg("user", 0, 0, "", content)

\* (a variant that validates its input before the connection check)
Client_Query_ValidateFirst(op, content) ==
  /\ clPc = "idle" /\ nOps < MaxOps /\ queryPc = NoQuery
  /\ nOps' = nOps + 1
  /\ IF content = ""
       THEN /\ opRes' = OpResult(op, IF op = "Query" THEN "prompt cannot be empty"
                                     ELSE "content cannot be nil")
            /\ UNCHANGED queryPc
       ELSE IF ~connected
         THEN /\ opRes' = OpResult(op, "not connected - call Connect() first")
              /\ UNCHANGED queryPc
         ELSE /\ queryPc' = [op |-> op, content |-> content]
              /\ UNCHANGED opRes
  /\ UNCHANGED <<clPc, cquery, cctxDone, connCtxDone, tcmd, nSpawned, nReaders, stderr, nStop,
                 nTClose, tctxDone, hvars, connectTrace, nOutClose>>
  /\ UNCHANGED <<tvars, callvars, loopvars, rrvars, routed>>

\* Client.Query (op = "Query", content the prompt, "" the empty prompt) and
\* Client.QueryWithContent (op = "QueryWithContent", "" the nil content) up
\* to the transport write: the connection check under c.mu, then the input
\* validation.
Client_Query(op, content) ==
  /\ clPc = "idle" /\ nOps < MaxOps /\ queryPc = NoQuery
  /\ nOps' = nOps + 1
  /\ IF ~connected
       THEN /\ opRes' = OpResult(op, "not connected - call Connect() first")
            /\ UNCHANGED queryPc
       ELSE IF content = ""
         THEN /\ opRes' = OpResult(op, IF op = "Query" THEN "prompt cannot be empty"
                                       ELSE "content cannot be nil")
              /\ UNCHANGED queryPc
         ELSE /\ queryPc' = [op |-> op, content |-> content]
              /\ UNCHANGED opRes
  /\ UNCHANGED <<clPc, cquery, cctxDone, connCtxDone, tcmd, nSpawned, nReaders, stderr, nStop,
                 nTClose, tctxDone, hvars, connectTrace, nOutClose>>
  /\ UNCHANGED <<tvars, callvars, loopvars, rrvars, routed>>

\* c.transport.Write of the line built, c.mu released.
Client_Query_Write(ok) ==
  /\ queryPc # NoQuery
  /\ Write(UserLine(queryPc.content), ok)
  /\ opRes' = OpResult(queryPc.op, WriteError(ok))
  /\ queryPc' = NoQuery
  /\ UNCHANGED <<stdout, stdoutEOF, nEmitted, emitted, answered, tmessages, tmessagesClosed>>
  /\ UNCHANGED <<clPc, nOps, cquery, cctxDone, connCtxDone, tcmd, nSpawned, nReaders, stderr,
                 nStop, nTClose, tctxDone, hvars, connectTrace, nOutClose>>
  /\ UNCHANGED <<callvars, loopvars, rrvars, routed>>

\* ------------------------------------------------ the one-shot Query (query.go)
\* Query up to the write of the prompt: the prompt check, transport.Connect,
\* NewQuery in non-streaming mode and Start.  The one context passed is used
\* by everything Query calls and by its goroutine.
Query_Begin(prompt, spawned) ==
  /\ clPc = "idle" /\ rrPc = "none" /\ nOps < 1
  /\ nOps' = nOps + 1
  /\ connCtxDone' = FALSE
  /\ IF prompt = ""
       THEN /\ opRes' = OpResult("Query", "prompt cannot be empty")
            /\ UNCHANGED <<tcmd, nSpawned, nReaders, ready, clPc, queryPc, loopPc, isStreamingMode>>
       ELSE /\ TransportConnect(spawned)
            /\ IF TransportConnectError(spawned) # ""
                 THEN /\ opRes' = OpResult("Query", "failed to connect to Claude CLI")
                      /\ UNCHANGED <<clPc, queryPc, loopPc, isStreamingMode>>
                 ELSE /\ isStreamingMode' = FALSE
                      /\ loopPc' = "select"
                      /\ clPc' = "query_write"
                      /\ queryPc' = [op |-> "Query", content |-> prompt]
                      /\ UNCHANGED opRes
  /\ UNCHANGED <<stdout, stdoutEOF, nEmitted, emitted, answered, tmessages, tmessagesClosed, written, terr>>
  /\ UNCHANGED <<cquery, cctxDone, stderr, nStop, nTClose, tctxDone, hvars, connectTrace, nOutClose>>
  /\ UNCHANGED <<loopMsg, loopRes, loopTo, routeErr, messagesChan, messagesChanClosed, qctxDone,
                 stopChanClosed, stopPc, canUseTool, handlers>>
  /\ UNCHANGED <<callvars, rrvars, routed>>

\* transportInst.Write of the prompt: on success Query makes outputChan,
\* starts the forwarding goroutine and returns the channel; on failure it
\* goes on to queryHandler.Stop and transportInst.Close.
Query_Write(ok) ==
  /\ clPc = "query_write"
  /\ Write(UserLine(queryPc.content), ok)
  /\ queryPc' = NoQuery
  /\ IF WriteError(ok) = ""
       THEN /\ rrPc' = "recv"
            /\ consumed' = <<<<>>>>
            /\ opRes' = OpResult("Query", "")
            /\ clPc' = "idle"
            /\ UNCHANGED nStop
       ELSE /\ clPc' = "fail_stop"
            /\ nStop' = nStop + 1
            /\ UNCHANGED <<opRes, rrPc, consumed>>
  /\ UNCHANGED <<stdout, stdoutEOF, nEmitted, emitted, answered, tmessages, tmessagesClosed>>
  /\ UNCHANGED <<nOps, cquery, cctxDone, connCtxDone, tcmd, nSpawned, nReaders, stderr,
                 nTClose, tctxDone, hvars, connectTrace, nOutClose>>
  /\ UNCHANGED <<connected, rrHeld, rrCtxDone, outputChan, outputClosed>>
  /\ UNCHANGED <<callvars, loopvars, routed>>

\* Query's failure path after Stop: transportInst.Close and the return of
\* the write error.
Query_FailClose ==
  /\ clPc = "fail_stop" /\ stopPc \in {"done", "canceled"}
  /\ TransportClose
  /\ opRes' = OpResult("Query", "failed to write to subprocess stdin")
  /\ clPc' = "idle"
  /\ UNCHANGED <<stdout, nEmitted, emitted, answered, tmessages, tmessagesClosed, written, terr>>
  /\ UNCHANGED <<nOps, cquery, cctxDone, connCtxDone, tcmd, nSpawned, nReaders, stderr, nStop,
                 connectTrace, nOutClose, queryPc>>
  /\ UNCHANGED <<callvars, loopvars, rrvars, routed, hvars>>

\* The caller cancels the context it passed to Query: the router's context
\* and the transport's context (which kills the child) derive from it.
CancelQuery ==
  /\ ~connCtxDone
  /\ rrPc # "none" \/ clPc \in {"query_write", "fail_stop"}
  /\ connCtxDone' = TRUE
  /\ qctxDone' = TRUE
  /\ stdoutEOF' = TRUE
  /\ tctxDone' = TRUE
  /\ UNCHANGED <<stdout, nEmitted, emitted, answered, tmessages, tmessagesClosed, written, ready, terr>>
  /\ UNCHANGED <<loopPc, loopMsg, loopRes, loopTo, routeErr, messagesChan, messagesChanClosed,
                 stopChanClosed, stopPc, isStreamingMode, canUseTool, handlers>>
  /\ UNCHANGED <<clPc, opRes, nOps, cquery, cctxDone, tcmd, nSpawned, nReaders, stderr,
                 nStop, nTClose, connectTrace, nOutClose, queryPc>>
  /\ UNCHANGED <<callvars, rrvars, routed, hvars>>

\* The forwarding goroutine's outer select: case <-ctx.Done() and the closed
\* messagesChan return (the deferred functions then run, Stop first); a
\* message received goes to the inner select.
Query_Receive ==
  /\ rrPc = "recv"
  /\ \/ /\ connCtxDone \/ (messagesChan = <<>> /\ messagesChanClosed)
        /\ rrPc' = "defer_stop"
        /\ nStop' = nStop + 1
        /\ UNCHANGED <<rrHeld, messagesChan>>
     \/ /\ messagesChan # <<>>
        /\ rrHeld' = Head(messagesChan)
        /\ messagesChan' = Tail(messagesChan)
        /\ rrPc' = "send"
        /\ UNCHANGED nStop
  /\ UNCHANGED <<connected, rrCtxDone, outputChan, outputClosed, consumed>>
  /\ UNCHANGED <<loopPc, loopMsg, loopRes, loopTo, routeErr, messagesChanClosed,
                 qctxDone, stopChanClosed, stopPc, isStreamingMode, canUseTool, handlers>>
  /\ UNCHANGED <<clPc, opRes, nOps, cquery, cctxDone, connCtxDone, tcmd, nSpawned, nReaders,
                 stderr, nTClose, tctxDone, hvars, connectTrace, nOutClose, queryPc>>
  /\ UNCHANGED <<tvars, callvars, routed>>

\* (a variant whose return on a cancelled context skips the deferred
\* teardown and goes straight to close(outputChan))
Query_Send_NoTeardown ==
  /\ rrPc = "send"
  /\ \/ /\ Len(outputChan) < OutputChanCap
        /\ outputChan' = Append(outputChan, rrHeld)
        /\ rrPc' = IF IsResult(rrHeld) THEN "defer_stop" ELSE "recv"
        /\ nStop' = IF IsResult(rrHeld) THEN nStop + 1 ELSE nStop
     \/ /\ connCtxDone
        /\ rrPc' = "defer_output"
        /\ UNCHANGED <<outputChan, nStop>>
  /\ rrHeld' = NoMsg
  /\ UNCHANGED <<connected, rrCtxDone, outputClosed, consumed>>
  /\ UNCHANGED <<clPc, opRes, nOps, cquery, cctxDone, connCtxDone, tcmd, nSpawned, nReaders,
                 stderr, nTClose, tctxDone, hvars, connectTrace, nOutClose, queryPc>>
  /\ UNCHANGED <<tvars, callvars, loopvars, routed>>

\* The inner select: case outputChan <- msg, and return after a
\* ResultMessage; case <-ctx.Done(): return.
Query_Send ==
  /\ rrPc = "send"
  /\ \/ /\ Len(outputChan) < OutputChanCap
        /\ outputChan' = Append(outputChan, rrHeld)
        /\ rrPc' = IF IsResult(rrHeld) THEN "defer_stop" ELSE "recv"
        /\ nStop' = IF IsResult(rrHeld) THEN nStop + 1 ELSE nStop
     \/ /\ connCtxDone
        /\ rrPc' = "defer_stop"
        /\ nStop' = nStop + 1
        /\ UNCHANGED outputChan
  /\ rrHeld' = NoMsg
  /\ UNCHANGED <<connected, rrCtxDone, outputClosed, consumed>>
  /\ UNCHANGED <<clPc, opRes, nOps, cquery, cctxDone, connCtxDone, tcmd, nSpawned, nReaders,
                 stderr, nTClose, tctxDone, hvars, connectTrace, nOutClose, queryPc>>
  /\ UNCHANGED <<tvars, callvars, loopvars, routed>>

\* queryHandler.Stop(ctx), called by the deferred function or by Query's
\* failure path.
Query_Stop ==
  /\ rrPc = "defer_stop" \/ clPc = "fail_stop"
  /\ \/ Stop_Signal
     \/ Stop_Close
     \/ Stop_CtxDone

\* The deferred function after Stop returned: transportInst.Close(ctx).
Query_Defer_Close ==
  /\ rrPc = "defer_stop" /\ stopPc \in {"done", "canceled"}
  /\ TransportClose
  /\ rrPc' = "defer_output"
  /\ UNCHANGED <<stdout, nEmitted, emitted, answered, tmessages, tmessagesClosed, written, terr>>
  /\ UNCHANGED <<clPc, opRes, nOps, cquery, cctxDone, connCtxDone, tcmd, nSpawned, nReaders,
                 stderr, nStop, connectTrace, nOutClose, queryPc>>
  /\ UNCHANGED <<connected, rrHeld, rrCtxDone, outputChan, outputClosed, consumed>>
  /\ UNCHANGED <<callvars, loopvars, routed, hvars>>

\* The first deferred function, run last: close(outputChan).
Query_Defer_CloseOutput ==
  /\ rrPc = "defer_output"
  /\ rrPc' = "closed"
  /\ outputClosed' = TRUE
  /\ nOutClose' = nOutClose + 1
  /\ UNCHANGED <<clPc, opRes, nOps, cquery, cctxDone, connCtxDone, tcmd, nSpawned, nReaders,
                 stderr, nStop, nTClose, tctxDone, hvars, connectTrace, queryPc>>
  /\ UNCHANGED <<connected, rrHeld, rrCtxDone, outputChan, consumed>>
  /\ UNCHANGED <<tvars, callvars, loopvars, routed>>

\* ----------------------------------------------- the transport used directly
\* The child writes a line on its diagnostic stream and goes on.
ChildWriteStderr(line) ==
  /\ nSpawned > 0 /\ ~stdoutEOF
  /\ Len(stderr) < MaxStderr
  /\ stderr' = Append(stderr, line)
  /\ UNCHANGED <<clPc, opRes, nOps, cquery, cctxDone, connCtxDone, tcmd, nSpawned, nReaders,
                 nStop, nTClose, tctxDone, hvars, connectTrace, nOutClose, queryPc>>
  /\ UNCHANGED <<tvars, callvars, loopvars, rrvars, routed>>

\* A call of SubprocessCLITransport.Connect.
Transport_Connect(spawned) ==
  /\ nOps < MaxOps
  /\ nOps' = nOps + 1
  /\ TransportConnect(spawned)
  /\ opRes' = OpResult("Transport.Connect", TransportConnectError(spawned))
  /\ connectTrace' = Append(connectTrace, "transport")
  /\ UNCHANGED <<stdout, stdoutEOF, nEmitted, emitted, answered, tmessages, tmessagesClosed, written, terr>>
  /\ UNCHANGED <<clPc, cquery, cctxDone, connCtxDone, stderr, nStop, nTClose, tctxDone, hvars, nOutClose, queryPc>>
  /\ UNCHANGED <<callvars, loopvars, rrvars, routed>>

\* A call of SubprocessCLITransport.Write.
Transport_Write(ok) ==
  /\ nOps < MaxOps
  /\ nOps' = nOps + 1
  /\ Write(UserLine("hi"), ok)
  /\ opRes' = OpResult("Transport.Write", WriteError(ok))
  /\ UNCHANGED <<stdout, stdoutEOF, nEmitted, emitted, answered, tmessages, tmessagesClosed>>
  /\ UNCHANGED <<clPc, cquery, cctxDone, connCtxDone, tcmd, nSpawned, nReaders, stderr, nStop,
                 nTClose, tctxDone, hvars, connectTrace, nOutClose, queryPc>>
  /\ UNCHANGED <<callvars, loopvars, rrvars, routed>>

\* A call of SubprocessCLITransport.Close.
Transport_Close ==
  /\ nOps < MaxOps
  /\ nOps' = nOps + 1
  /\ TransportClose
  /\ opRes' = OpResult("Transport.Close", "")
  /\ UNCHANGED <<stdout, nEmitted, emitted, answered, tmessages, tmessagesClosed, written, terr>>
  /\ UNCHANGED <<clPc, cquery, cctxDone, connCtxDone, tcmd, nSpawned, nReaders, stderr, nStop,
                 connectTrace, nOutClose, queryPc>>
  /\ UNCHANGED <<callvars, loopvars, rrvars, routed, hvars>>

\* A reader of the channel ReadMessages returns.
ReadMessages_Read ==
  /\ tmessages # <<>>
  /\ tmessages' = Tail(tmessages)
  /\ consumed' = <<Flatten(consumed) \o <<Head(tmessages)>> >>
  /\ UNCHANGED <<stdout, stdoutEOF, nEmitted, emitted, answered, tmessagesClosed, written, ready, terr>>
  /\ UNCHANGED <<connected, rrPc, rrHeld, rrCtxDone, outputChan, outputClosed>>
  /\ UNCHANGED <<callvars, loopvars, clvars, hvars, routed>>

\* ---------------------------------------------------------- specifications
\* The state after NewSubprocessCLITransport and NewQuery in streaming mode,
\* less the transport's connection state.  lp is the message loop's position
\* ("idle": Start not called yet) and conn is Client.connected.
InitWith(lp, conn, streaming, permission, opts) ==
  /\ stdout = <<>> /\ stdoutEOF = FALSE /\ nEmitted = 0 /\ emitted = <<>> /\ answered = {}
  /\ tmessages = <<>> /\ tmessagesClosed = FALSE
  /\ written = <<>> /\ terr = ""
  /\ requestMap = [i \in MapIDs |-> 0]
  /\ responseChan = [c \in Callers |-> <<>>]
  /\ nextRequestID = 0
  /\ calls = [c \in Callers |-> [pc |-> "idle", id |-> 0, res |-> NoResult]]
  /\ callCtxDone = [c \in Callers |-> FALSE]
  /\ loopPc = lp /\ loopMsg = NoMsg /\ loopRes = NoResult /\ loopTo = 0
  /\ routeErr = "nil"
  /\ messagesChan = <<>> /\ messagesChanClosed = FALSE
  /\ qctxDone = FALSE /\ stopChanClosed = FALSE /\ stopPc = "idle"
  /\ isStreamingMode = streaming /\ canUseTool = permission
  /\ handlers = {}
  /\ connected = conn
  /\ rrPc = "none" /\ rrHeld = NoMsg /\ rrCtxDone = FALSE
  /\ outputChan = <<>> /\ outputClosed = FALSE /\ consumed = <<>>
  /\ issued = <<>>
  /\ delivered = [i \in WireIDs |-> 0]
  /\ matched = [c \in Callers |-> NoMsg]
  /\ dropped = {}
  /\ routed = <<>>
  /\ clPc = "idle" /\ opRes = [op |-> "none", err |-> ""] /\ nOps = 0
  /\ cquery = conn /\ cctxDone = FALSE /\ connCtxDone = FALSE
  /\ stderr = <<>> /\ nStop = 0 /\ nTClose = 0 /\ connectTrace = <<>> /\ nOutClose = 0
  /\ queryPc = NoQuery /\ tctxDone = FALSE
  /\ invoked = <<>> /\ initialized = FALSE /\ initializeResult = NoResult
  /\ initCall = [c \in Callers |-> [pc |-> "idle", res |-> NoResult]]
  /\ options = opts /\ client = NoClient

\* The same with the options NewClaudeAgentOptions returns and a CLI path.
InitOptions(lp, conn, streaming, permission) ==
  InitWith(lp, conn, streaming, permission, ClaudeAgentOptions(FALSE, "nil", TRUE, "nil"))

\* A streaming-mode router with a permission callback.
InitBase(lp, conn) == InitOptions(lp, conn, TRUE, TRUE)

\* The transport is connected: its child process runs and its two readers
\* are started.
InitState(lp, conn) ==
  /\ InitBase(lp, conn)
  /\ ready = TRUE /\ tcmd = TRUE /\ nSpawned = 1 /\ nReaders = 2

\* A client NewClient has just returned: nothing is connected.
InitClient ==
  /\ InitBase("idle", FALSE)
  /\ ready = FALSE /\ tcmd = FALSE /\ nSpawned = 0 /\ nReaders = 0

\* A router used on its own (as the router's tests do), not started yet.
InitRouter == InitState("idle", FALSE)
\* The same router after Start.
InitStarted == InitState("select", FALSE)
\* A connected client: the message loop runs and Client.connected is set.
InitSession == InitState("select", TRUE)

\* The control_response lines the child may write: success and error
\* envelopes for every request ID the router may hold and for one it never
\* issues, an error without text, a second payload, an envelope without
\* request_id and one without a response object.
ResponseLines ==
  {<<rid, "success", "p1">> : rid \in MapIDs}
    \cup {<<rid, "error", "boom">> : rid \in MapIDs}
    \cup {<<1, "success", "p2">>, <<1, "error", "">>, <<0, "success", "p1">>, <<1, "nil", "">>}

\* Request/response correlation: concurrent sendControlRequest calls, a child
\* that writes any control_response at any time, cancellation of the callers'
\* contexts, failing writes, and Stop.
Next ==
  \/ Start
  \/ \E c \in Callers :
        \/ sendControlRequest_Begin(c)
        \/ sendControlRequest_Register(c)
        \/ \E ok \in BOOLEAN : sendControlRequest_Write(c, ok)
        \/ sendControlRequest_Receive(c)
        \/ sendControlRequest_Cancelled(c)
        \/ CancelCall(c)
  \/ \E l \in ResponseLines : ChildEmitControlResponse(l[1], l[2], l[3], MaxResponses)
  \/ messageReaderLoop_Send
  \/ messageLoop_Receive
  \/ messageLoop_Exit
  \/ handleControlResponse_Send
  \/ handleControlResponse_CtxDone
  \/ Stop_Signal
  \/ Stop_Close

Spec == InitRouter /\ [][Next]_vars

\* N concurrent sendControlRequest calls on a started router whose writes
\* succeed, and the responder of TestConcurrentRequests.  Every goroutine
\* that can run eventually runs (weak fairness on each process).
NextConc ==
  \/ \E c \in Callers :
        \/ sendControlRequest_Begin(c)
        \/ sendControlRequest_Register(c)
        \/ sendControlRequest_Write(c, TRUE)
        \/ sendControlRequest_Receive(c)
  \/ \E i \in 1..NumCallers : ResponderAnswer(i, NumCallers)
  \/ messageReaderLoop_Send
  \/ messageLoop_Receive
  \/ handleControlResponse_Send

SpecConc ==
  /\ InitStarted
  /\ [][NextConc]_vars
  /\ \A c \in Callers :
        WF_vars(\/ sendControlRequest_Begin(c)
                \/ sendControlRequest_Register(c)
                \/ sendControlRequest_Write(c, TRUE)
                \/ sendControlRequest_Receive(c))
  /\ WF_vars(\E i \in 1..NumCallers : ResponderAnswer(i, NumCallers))
  /\ WF_vars(messageReaderLoop_Send)
  /\ WF_vars(messageLoop_Receive \/ handleControlResponse_Send)

\* The subtypes of the inbound control requests the child sends here, and
\* what the permission callback may return.
RequestSubtypes == {"can_use_tool", "interrupt"}
CallbackResults == {"allow", "error"}

\* A connected session's message flow: the child writes conversational
\* messages and control requests, the reader and the message loop carry them,
\* handlers answer the control requests whenever their callbacks return, the
\* application runs ReceiveResponse cycles and reads their channels, the
\* child may close its output, and either context may be cancelled (Stop
\* cancels the router's).
NextFlow ==
  \/ \E t \in {"assistant", "result"} : ChildEmitMessage(t, MaxEmit)
  \/ \E sub \in RequestSubtypes : ChildEmitControlRequest(nEmitted + 1, sub, MaxEmit)
  \/ ChildEmitControlResponse(1, "success", "p1", MaxEmit)
  \/ ChildCloseStdout
  \/ messageReaderLoop_Send
  \/ messageReaderLoop_EOF
  \/ messageLoop_Receive
  \/ messageLoop_Exit
  \/ routeMessage_Send
  \/ routeMessage_CtxDone
  \/ \E m \in handlers, cb \in CallbackResults, ok \in BOOLEAN : handleControlRequest(m, cb, ok)
  \/ Stop_Signal
  \/ Stop_Close
  \/ ReceiveResponse
  \/ ReceiveResponse_Receive
  \/ ReceiveResponse_Send
  \/ ReceiveResponse_Return
  \/ CancelReceive
  \/ AppRead

SpecFlow == InitSession /\ [][NextFlow]_vars

\* Control traffic behind conversational messages: the application reads
\* Query.GetMessages() when it chooses to (and may stop), the child writes
\* enough conversational messages to fill the consumer channel, answers the
\* control requests it sees and sends control requests of its own.
MaxLines == MessagesChanCap + NumCallers + 1

NextBackpressure ==
  \/ \E c \in Callers :
        \/ sendControlRequest_Begin(c)
        \/ sendControlRequest_Register(c)
        \/ sendControlRequest_Write(c, TRUE)
        \/ sendControlRequest_Receive(c)
  \/ \E i \in 1..NumCallers : ResponderAnswer(i, MaxLines)
  \/ ChildEmitMessage("assistant", MaxLines)
  \/ ChildEmitControlRequest(nEmitted + 1, "can_use_tool", MaxLines)
  \/ messageReaderLoop_Send
  \/ messageLoop_Receive
  \/ routeMessage_Send
  \/ handleControlResponse_Send
  \/ \E m \in handlers : handleControlRequest(m, "allow", TRUE)
  \/ GetMessages_Read

SpecBackpressure == InitSession /\ [][NextBackpressure]_vars

\* The end of the stream: the child writes conversational messages and
\* closes its output, or the session context is cancelled; the application
\* runs ReceiveResponse cycles and reads; it calls Stop or cancels its own
\* context only if it chooses to.  Every goroutine of the program that can
\* run eventually runs; nothing obliges the application to call Stop, to
\* cancel or to start another cycle.
NextStreamEnd ==
  \/ \E t \in {"assistant", "result"} : ChildEmitMessage(t, MaxEmit)
  \/ ChildCloseStdout
  \/ CancelSession
  \/ messageReaderLoop_Send
  \/ messageReaderLoop_EOF
  \/ messageLoop_Receive
  \/ messageLoop_Exit
  \/ routeMessage_Send
  \/ routeMessage_CtxDone
  \/ Stop_Signal
  \/ Stop_Close
  \/ ReceiveResponse
  \/ ReceiveResponse_Receive
  \/ ReceiveResponse_Send
  \/ ReceiveResponse_Return
  \/ CancelReceive
  \/ AppRead

SpecStreamEnd ==
  /\ InitSession
  /\ [][NextStreamEnd]_vars
  /\ WF_vars(messageReaderLoop_Send \/ messageReaderLoop_EOF)
  /\ WF_vars(messageLoop_Receive \/ messageLoop_Exit \/ routeMessage_Send \/ routeMessage_CtxDone)
  /\ WF_vars(Stop_Close)
  /\ WF_vars(ReceiveResponse_Receive \/ ReceiveResponse_Send \/ ReceiveResponse_Return)
  /\ WF_vars(AppRead)

\* The lines the child may write on its diagnostic stream: the session-not-
\* found report, the same text without a session ID, and any other line.
StderrLines == {StderrLine(TRUE, "s1"), StderrLine(TRUE, ""), StderrLine(FALSE, "")}

\* The client's lifecycle: Connect, Close, Query and QueryWithContent called
\* in any order on one client, a child that answers the initialize request,
\* refuses it, or reports a fatal condition and exits, failing spawns and
\* writes, and cancellation of the context passed to Connect or Close.
NextClient ==
  \/ \E spawned \in BOOLEAN : Connect_Begin(spawned)
  \/ Connect_Check
  \/ Connect_Start
  \/ Initialize_Begin
  \/ Initialize_Call
  \/ Connect_Finish
  \/ CancelConnect
  \/ Client_Stop
  \/ Stop_CtxDone
  \/ Connect_FailClose
  \/ Close_Begin
  \/ \E exited \in BOOLEAN : Close_Finish(exited)
  \/ \E op \in {"Query", "QueryWithContent"}, content \in {"", "hi"} : Client_Query(op, content)
  \/ \E ok \in BOOLEAN : Client_Query_Write(ok)
  \/ \E line \in StderrLines : ChildReportFatal(line)
  \/ readStderr_Line
  \/ \E i \in 1..MaxOps : ResponderAnswer(i, MaxEmit)
  \/ ChildEmitControlResponse(1, "error", "boom", MaxEmit)
  \/ messageReaderLoop_Send
  \/ messageReaderLoop_EOF
  \/ messageLoop_Receive
  \/ messageLoop_Exit
  \/ handleControlResponse_Send
  \/ handleControlResponse_CtxDone

SpecClient == InitClient /\ [][NextClient]_vars

\* The one-shot Query: the call, a child that writes conversational messages
\* and a control_response nobody waits for and may close its output, the
\* caller cancelling its context at any time, and the application reading
\* the returned channel.  Every goroutine that can run eventually runs.
NextOneShot ==
  \/ \E prompt \in {"", "hi"}, spawned \in BOOLEAN : Query_Begin(prompt, spawned)
  \/ \E ok \in BOOLEAN : Query_Write(ok)
  \/ Query_FailClose
  \/ CancelQuery
  \/ \E t \in {"assistant", "result"} : ChildEmitMessage(t, MaxEmit)
  \/ ChildEmitControlResponse(1, "success", "p1", MaxEmit)
  \/ ChildCloseStdout
  \/ messageReaderLoop_Send
  \/ messageReaderLoop_EOF
  \/ messageLoop_Receive
  \/ messageLoop_Exit
  \/ routeMessage_Send
  \/ routeMessage_CtxDone
  \/ Query_Receive
  \/ Query_Send
  \/ Query_Stop
  \/ Query_Defer_Close
  \/ Query_Defer_CloseOutput
  \/ AppRead

SpecOneShot ==
  /\ InitClient
  /\ [][NextOneShot]_vars
  /\ WF_vars(messageReaderLoop_Send \/ messageReaderLoop_EOF)
  /\ WF_vars(messageLoop_Receive \/ messageLoop_Exit \/ routeMessage_Send \/ routeMessage_CtxDone)
  /\ WF_vars(Query_Receive \/ Query_Send \/ Query_Stop \/ Query_Defer_Close \/ Query_Defer_CloseOutput)

\* The transport used directly: Connect, Write and Close called in any
\* order, writes that fail, a child that writes messages, lines that do not
\* decode and diagnostic lines (session-not-found reports among them), and
\* the two readers.
NextTransport ==
  \/ \E spawned \in BOOLEAN : Transport_Connect(spawned)
  \/ \E ok \in BOOLEAN : Transport_Write(ok)
  \/ Transport_Close
  \/ \E t \in {"assistant", "invalid"} : ChildEmitMessage(t, MaxEmit)
  \/ \E line \in StderrLines \cup {StderrLine(TRUE, "s2")} : ChildWriteStderr(line)
  \/ readStderr_Line
  \/ messageReaderLoop_Send
  \/ messageReaderLoop_DecodeError
  \/ messageReaderLoop_ReadError
  \/ messageReaderLoop_CtxDone
  \/ messageReaderLoop_EOF
  \/ ChildCloseStdout
  \/ ReadMessages_Read

SpecTransport == InitClient /\ [][NextTransport]_vars

\* The request objects the child sends here: a permission request, one
\* without tool_name, MCP messages for a registered server, for an unknown
\* one and without a message, hook callbacks with a registered and with an
\* unknown ID, the two acknowledged subtypes, a subtype the router does not
\* know, and a line without a request object.
RequestBodies ==
  { RequestData(0, "can_use_tool", "Write", "in1", "", 0, ""),
    RequestData(0, "can_use_tool", "", "in1", "", 0, ""),
    RequestData(0, "mcp_message", "", "", "calc", 7, ""),
    RequestData(0, "mcp_message", "", "", "ghost", 7, ""),
    RequestData(0, "mcp_message", "", "", "calc", 0, ""),
    RequestData(0, "hook_callback", "", "in1", "", 0, "hook_1"),
    RequestData(0, "hook_callback", "", "in1", "", 0, "hook_2"),
    WithToolUseID(RequestData(0, "hook_callback", "", "in1", "", 0, "hook_1"), "toolu_1"),
    RequestData(0, "hook_callback", "", "in1", "", 0, "hook_9"),
    RequestData(0, "hook_callback", "", "in1", "", 0, ""),
    RequestData(0, "interrupt", "", "", "", 0, ""),
    RequestData(0, "set_permission_mode", "", "", "", 0, ""),
    RequestData(0, "rewind", "", "", "", 0, ""),
    NoRequestData }

\* The lines carrying them, the k-th with request ID k: the ID at the top
\* level or inside the request object, and one line each with the ID inside
\* "data" and with no ID.
RequestLines(k) ==
  {ControlRequestWire(where, k, b) : where \in {"top", "request"}, b \in RequestBodies}
    \cup {ControlRequestWire("data", k, RequestData(0, "can_use_tool", "Write", "in1", "", 0, "")),
          ControlRequestWire("none", k, RequestData(0, "interrupt", "", "", "", 0, ""))}

\* What the callbacks may return.
PermissionResults ==
  {Allow("", ""), Allow("in2", ""), Allow("", "p1"), Deny("disabled", FALSE), Deny("stop", TRUE),
   Deny("", FALSE), CallbackError, OtherResult}
MCPResults == {"ok", "error"}
HookResults ==
  {HookOutput("continue"), HookOutput("block"), HookResult("error", "", "hook failed"),
   HookResult("other", "", "")}

MaxRequests == 2

\* Inbound control requests on a connected session, with or without a
\* permission callback: the child writes control_request lines, the reader
\* decodes them, the message loop starts a handler for each, and each
\* handler calls its callback and writes its response (the write may fail).
InitRequests ==
  /\ \E permission \in BOOLEAN : InitOptions("select", TRUE, TRUE, permission)
  /\ ready = TRUE /\ tcmd = TRUE /\ nSpawned = 1 /\ nReaders = 2

NextRequests ==
  \/ \E line \in RequestLines(nEmitted + 1) : ChildEmitRequest(line, MaxRequests)
  \/ messageReaderLoop_Send
  \/ messageLoop_Receive
  \/ \E msg \in handlers, cb \in PermissionResults, h \in MCPResults, hk \in HookResults,
        ok \in BOOLEAN :
        handleControlRequest_Run(msg, cb, h, hk, ok)

SpecRequests == InitRequests /\ [][NextRequests]_vars

\* Query.Initialize called on a started router, in streaming mode or not,
\* by callers that may overlap; the child answers (or not) with any
\* control_response, writes may fail and callers may cancel their contexts.
InitInitialize ==
  /\ \E streaming \in BOOLEAN : InitOptions("select", FALSE, streaming, TRUE)
  /\ ready = TRUE /\ tcmd = TRUE /\ nSpawned = 1 /\ nReaders = 2

NextInitialize ==
  \/ \E c \in Callers :
        \/ Initialize_Enter(c)
        \/ Initialize_Send(c)
        \/ Initialize_Return(c)
        \/ CancelCall(c)
  \/ \E l \in ResponseLines : ChildEmitControlResponse(l[1], l[2], l[3], MaxResponses)
  \/ messageReaderLoop_Send
  \/ messageLoop_Receive
  \/ handleControlResponse_Send

SpecInitialize == InitInitialize /\ [][NextInitialize]_vars

\* The options objects the caller may hold.
OptionSets ==
  {ClaudeAgentOptions(cb, tool, cli, resume) :
      cb \in BOOLEAN, tool \in {"nil", "cli", "stdio", ""}, cli \in BOOLEAN,
      resume \in {"nil", "", "s1"}}

\* NewClient, called once or several times with the same options object,
\* the CLI being installed or not.
InitNewClient ==
  /\ \E opts \in OptionSets : InitWith("idle", FALSE, TRUE, TRUE, opts)
  /\ ready = FALSE /\ tcmd = FALSE /\ nSpawned = 0 /\ nReaders = 0

NextNewClient == \E found \in BOOLEAN : NewClient(found)

SpecNewClient == InitNewClient /\ [][NextNewClient]_vars

\* The user lines the child writes here: string content, content blocks at
\* the top level, the same blocks under "message" (the envelope of the CLI),
\* a block of an unknown type, and content that is neither string nor array.
UserLines ==
  { UserWire(JSONString("hello"), JSONAbsent),
    UserWire(JSONNull, JSONAbsent),
    UserWire(JSONArray(<<BlockWire("tool_result", "toolu_1")>>), JSONAbsent),
    UserWire(JSONArray(<<BlockWire("text", ""), BlockWire("tool_result", "toolu_2")>>), JSONAbsent),
    UserWire(JSONArray(<<BlockWire("image", "")>>), JSONAbsent),
    UserWire(JSONNumber, JSONAbsent),
    UserWire(JSONAbsent, JSONArray(<<BlockWire("tool_result", "toolu_1")>>)),
    UserWire(JSONAbsent, JSONString("hello")) }

\* Decoding of user lines on a connected transport: the child writes them,
\* the reader decodes each and sends it on or reports it, and the channel is
\* read.
NextDecode ==
  \/ \E line \in UserLines : ChildEmitRequest(line, MaxEmit)
  \/ messageReaderLoop_Send
  \/ messageReaderLoop_DecodeError
  \/ ReadMessages_Read

SpecDecode == InitStarted /\ [][NextDecode]_vars

\* Cancellation of the session context while control requests are in
\* flight: callers send, the child answers some of them and writes
\* conversational messages nobody reads, and the context may be cancelled at
\* any moment.  Every goroutine that can run eventually runs; nothing
\* obliges the child to answer or the context to be cancelled.
NextCancel ==
  \/ \E c \in Callers :
        \/ sendControlRequest_Begin(c)
        \/ sendControlRequest_Register(c)
        \/ \E ok \in BOOLEAN : sendControlRequest_Write(c, ok)
        \/ sendControlRequest_Receive(c)
        \/ sendControlRequest_Cancelled(c)
  \/ \E l \in {<<1, "success", "p1">>, <<2, "error", "boom">>} :
        ChildEmitControlResponse(l[1], l[2], l[3], MaxEmit)
  \/ ChildEmitMessage("assistant", MaxEmit)
  \/ CancelContext
  \/ messageReaderLoop_Send
  \/ messageLoop_Receive
  \/ messageLoop_Exit
  \/ handleControlResponse_Send
  \/ handleControlResponse_CtxDone
  \/ routeMessage_Send
  \/ routeMessage_CtxDone

SpecCancel ==
  /\ InitStarted
  /\ [][NextCancel]_vars
  /\ \A c \in Callers :
        WF_vars(\/ sendControlRequest_Begin(c)
                \/ sendControlRequest_Register(c)
                \/ \E ok \in BOOLEAN : sendControlRequest_Write(c, ok)
                \/ sendControlRequest_Receive(c)
                \/ sendControlRequest_Cancelled(c))
  /\ WF_vars(messageReaderLoop_Send)
  /\ WF_vars(\/ messageLoop_Receive \/ messageLoop_Exit
             \/ handleControlResponse_Send \/ handleControlResponse_CtxDone
             \/ routeMessage_Send \/ routeMessage_CtxDone)

\* The child's output ends while Initialize calls are in flight: callers
\* call Initialize, the child answers some requests and closes its output
\* (it exits) at any moment: nobody cancels a context or calls Stop.  Every
\* goroutine that can run eventually runs; nothing obliges the child to
\* answer.
NextStreamClose ==
  \/ \E c \in Callers :
        \/ Initialize_Enter(c)
        \/ Initialize_Send(c)
        \/ Initialize_Return(c)
  \/ \E l \in {<<1, "success", "p1">>, <<2, "error", "boom">>} :
        ChildEmitControlResponse(l[1], l[2], l[3], MaxResponses)
  \/ ChildCloseStdout
  \/ messageReaderLoop_Send
  \/ messageReaderLoop_EOF
  \/ messageLoop_Receive
  \/ messageLoop_Exit
  \/ handleControlResponse_Send

SpecStreamClose ==
  /\ InitStarted
  /\ [][NextStreamClose]_vars
  /\ \A c \in Callers :
        WF_vars(Initialize_Enter(c) \/ Initialize_Send(c) \/ Initialize_Return(c))
  /\ WF_vars(messageReaderLoop_Send \/ messageReaderLoop_EOF)
  /\ WF_vars(messageLoop_Receive \/ messageLoop_Exit \/ handleControlResponse_Send)

\* Stop called once or several times on a started router: the child writes
\* conversational messages, the loop forwards them to a consumer that reads
\* or does not, and the context of a waiting Stop call may end.
NextStop ==
  \/ ChildEmitMessage("assistant", MaxEmit)
  \/ messageReaderLoop_Send
  \/ messageLoop_Receive
  \/ messageLoop_Exit
  \/ routeMessage_Send
  \/ routeMessage_CtxDone
  \/ GetMessages_Read
  \/ Stop_Signal
  \/ Stop_Close
  \/ Stop_CtxDone
  \/ CancelStop
  \/ \E ctxDone \in BOOLEAN : Stop_Again(ctxDone)

SpecStop == InitStarted /\ [][NextStop]_vars

\* ------------------------------------------------------------------ claims

\* C1: N concurrent sendControlRequest calls, each request answered exactly
\* once by the responder: every call eventually returns, and each returns
\* success with the payload of the response that carries its own request ID
\* (no call hangs, no response reaches another caller).
C1_ConcurrentRequestsResolve ==
  /\ <>(\A c \in Callers : calls[c].pc = "done")
  /\ [](\A c \in Callers :
          /\ calls[c].pc = "done" =>
                /\ calls[c].res = [kind |-> "ok", val |-> ToString(calls[c].id)]
                /\ matched[c].rid = calls[c].id
          /\ responseChan[c] # <<>> =>
                responseChan[c] = <<[kind |-> "ok", val |-> ToString(calls[c].id)]>>)

\* Both calls were in flight together (their IDs issued before any returned)
\* and both have returned success.
C1_Witness ==
  /\ \A c \in Callers : calls[c].pc = "done" /\ calls[c].res.kind = "ok"
  /\ Len(issued) = NumCallers
  /\ calls[1].id = 2

\* C2: a control_response matching a pending request resolves that request's
\* waiter: the call returns the response payload when the subtype is not
\* error, and a control-protocol error carrying the response's error text
\* when it is.
C2_ResponseResolvesWaiter ==
  \A c \in Callers :
    /\ matched[c] # NoMsg =>
          /\ matched[c].type = "control_response"
          /\ matched[c].rid = calls[c].id
          \* the result is on its way to the waiter unless the session
          \* context was cancelled while the router was delivering it
          /\ \/ loopPc = "deliver" /\ loopTo = c
             \/ responseChan[c] # <<>>
             \/ calls[c].pc = "done"
             \/ qctxDone
    /\ \A i \in 1..Len(responseChan[c]) :
          /\ matched[c] # NoMsg
          /\ responseChan[c][i] =
               IF matched[c].sub = "error"
                 THEN [kind |-> "control_protocol",
                       val |-> IF matched[c].val = "" THEN "unknown control protocol error"
                               ELSE matched[c].val]
                 ELSE [kind |-> "ok", val |-> matched[c].val]
    /\ (calls[c].pc = "done" /\ calls[c].res.kind \in {"ok", "control_protocol"}) =>
          /\ matched[c] # NoMsg
          /\ calls[c].res =
               IF matched[c].sub = "error"
                 THEN [kind |-> "control_protocol",
                       val |-> IF matched[c].val = "" THEN "unknown control protocol error"
                               ELSE matched[c].val]
                 ELSE [kind |-> "ok", val |-> matched[c].val]

\* One call has returned an error response's text as a control-protocol
\* error while another has returned a success payload.
C2_Witness ==
  \E c, d \in Callers :
    /\ calls[c].pc = "done" /\ calls[c].res = [kind |-> "control_protocol", val |-> "boom"]
    /\ calls[d].pc = "done" /\ calls[d].res = [kind |-> "ok", val |-> "p1"]

\* C3: a control_response whose request ID has no pending entry (never
\* issued, already resolved, or removed by a cancelled call) is dropped: the
\* step that routes it resolves no waiter, reports no error, leaves the map
\* and every waiter's channel as they were and returns the loop to its
\* select; and no request ID ever has more than one response delivered.
C3_OrphanResponseDropped ==
  /\ [][(/\ loopPc = "select"
         /\ tmessages # <<>>
         /\ tmessages' = Tail(tmessages)
         /\ Head(tmessages).type = "control_response"
         /\ Head(tmessages).sub # "nil"
         /\ Head(tmessages).rid # 0
         /\ requestMap[Head(tmessages).rid] = 0)
        => (/\ requestMap' = requestMap
            /\ responseChan' = responseChan
            /\ calls' = calls
            /\ delivered' = delivered
            /\ matched' = matched
            /\ routeErr' = "nil"
            /\ loopPc' = "select")]_vars
  /\ [](\A rid \in MapIDs : delivered[rid] <= 1)

\* A second response for an already resolved request has been dropped while
\* another request was still pending.
C3_Witness ==
  \E rid, other \in MapIDs :
    /\ rid \in dropped
    /\ delivered[rid] = 1
    /\ other # rid
    /\ requestMap[other] # 0

\* C4: when the caller's context is cancelled before a response arrives the
\* call returns the cancellation error and its entry is gone from the map; a
\* response that arrives afterwards is either dropped or lands in the
\* abandoned waiter's buffered channel, so the loop's send never blocks.
C4_CancelRemovesEntry ==
  /\ \A c \in Callers :
        (calls[c].pc = "done" /\ calls[c].res.kind = "canceled") =>
            /\ calls[c].res = [kind |-> "canceled", val |-> "context canceled"]
            /\ callCtxDone[c]
            /\ requestMap[calls[c].id] = 0
            /\ \A id \in MapIDs : requestMap[id] # c
  /\ loopPc = "deliver" => Len(responseChan[loopTo]) < ResponseChanCap

\* A call returned the cancellation error and the response that came for it
\* afterwards found no entry.
C4_Witness ==
  \E c \in Callers :
    /\ calls[c].pc = "done"
    /\ calls[c].res.kind = "canceled"
    /\ calls[c].id \in dropped
    /\ loopPc = "select"

\* C5: no two requests pending at the same time share an ID: the IDs handed
\* out are strictly increasing, so none is handed out twice, and every map
\* entry belongs to the one call that holds that ID.
C5_RequestIDsUnique ==
  /\ \A i, j \in 1..Len(issued) : i < j => issued[i] < issued[j]
  /\ \A c, d \in Callers :
        (c # d /\ calls[c].id # 0 /\ calls[d].id # 0) => calls[c].id # calls[d].id
  /\ \A id \in MapIDs :
        requestMap[id] # 0 =>
            /\ calls[requestMap[id]].id = id
            /\ calls[requestMap[id]].pc \in {"write", "wait"}

\* Two requests are pending at the same time.
C5_Witness ==
  \E id1, id2 \in MapIDs :
    /\ id1 # id2
    /\ requestMap[id1] # 0
    /\ requestMap[id2] # 0
    /\ requestMap[id1] # requestMap[id2]


\* What the forwarder holds between its receive and its send.
Held == IF rrHeld = NoMsg THEN <<>> ELSE <<rrHeld>>
\* What routeMessage holds while its send on the consumer channel blocks.
Forwarding == IF loopPc = "forward" THEN <<loopMsg>> ELSE <<>>

\* C6: no control_request or control_response is ever put on the router's
\* consumer channel, so none is held by a forwarder, put on a channel
\* ReceiveResponse (or the one-shot Query) returned, or read by the application.
C6_ControlNeverReachesConsumer ==
  /\ \A i \in 1..Len(routed) : ~IsControl(routed[i])
  /\ \A i \in 1..Len(messagesChan) : ~IsControl(messagesChan[i])
  /\ ~IsControl(rrHeld)
  /\ \A i \in 1..Len(outputChan) : ~IsControl(outputChan[i])
  /\ \A k \in 1..Len(consumed) : \A i \in 1..Len(consumed[k]) : ~IsControl(consumed[k][i])

\* The loop has routed a control request and a control response, and the
\* application has read a conversational message.
C6_Witness ==
  /\ dropped # {}
  /\ written # <<>>
  /\ Len(Flatten(consumed)) >= 1

\* C7: while neither the router's context nor the one given to
\* ReceiveResponse is cancelled, the conversational messages the application
\* has read, followed by those still in the forwarder's channel, held by the
\* forwarder, in the consumer channel, held by the loop, in the transport
\* queue and in the child's output, are exactly the messages the child wrote,
\* in the order it wrote them: none lost, duplicated or reordered.
C7_OrderPreserved ==
  (~qctxDone /\ ~rrCtxDone) =>
      Flatten(consumed) \o outputChan \o Held \o messagesChan \o Forwarding
        \o Conversational(tmessages) \o Conversational(stdout) = emitted

\* With no context cancelled the application has read every message the
\* child wrote, interleaved with control traffic.
C7_Witness ==
  /\ ~qctxDone
  /\ ~rrCtxDone
  /\ Len(emitted) >= 2
  /\ nEmitted > Len(emitted)
  /\ Flatten(consumed) = emitted

\* C8: dispatching an inbound control request leaves the message loop at its
\* select, and while a handler has not returned the loop can still take the
\* next message: a conversational one goes to the consumer channel when that
\* has room, a control request gets a handler of its own.
C8_LoopNotBlockedByHandler ==
  /\ [][(\E m \in handlers' : m \notin handlers) => (loopPc' = "select" /\ routeErr' = "nil")]_vars
  /\ []((handlers # {} /\ tmessages # <<>> /\ loopPc \notin {"forward", "exited"}) =>
          ENABLED (/\ messageLoop_Receive
                   /\ Head(tmessages).type = "control_request" =>
                        handlers' = handlers \cup {Head(tmessages)}
                   /\ (~IsControl(Head(tmessages)) /\ Len(messagesChan) < MessagesChanCap) =>
                        messagesChan' = Append(messagesChan, Head(tmessages))))

\* While two handlers are still running, a conversational message the child
\* wrote after the first control request is on the consumer channel's record.
C8_Witness ==
  /\ Cardinality(handlers) >= 2
  /\ \E h \in handlers : \E i \in 1..Len(routed) : routed[i].n > h.n

\* C9: a full consumer channel does not stop the router from servicing
\* control traffic: whenever the consumer channel is full and a control
\* message (a response for a waiter, or an inbound request) is next in the
\* transport queue, the message loop can take it, at once or after handing
\* over the response it is delivering, without the consumer reading.
C9_FullConsumerDoesNotBlockControl ==
  (/\ Len(messagesChan) = MessagesChanCap
   /\ tmessages # <<>>
   /\ IsControl(Head(tmessages)))
  => ENABLED (messageLoop_Receive \/ handleControlResponse_Send)

\* C10: every message the router has put on the shared consumer channel is,
\* at any time, either read by the application in exactly one
\* ReceiveResponse cycle, on the current cycle's channel, held by its
\* forwarder, or still waiting on the consumer channel, in the router's
\* order; no cycle yields anything after a Result.
C10_EachMessageInOneCycle ==
  /\ Flatten(consumed) \o outputChan \o Held \o messagesChan = routed
  /\ \A k \in 1..Len(consumed) :
        \A i \in 1..Len(consumed[k]) : IsResult(consumed[k][i]) => i = Len(consumed[k])

\* C11: once the message loop has ended without Stop having been called
\* (end of the child's output, or the session context cancelled), the
\* consumer channel is eventually closed and the forwarder of a running
\* ReceiveResponse cycle returns, without the application calling Stop or
\* cancelling the context it gave to ReceiveResponse.
C11_ConsumerChannelClosesAfterLoopEnd ==
  []((loopPc = "exited" /\ ~stopChanClosed /\ ~rrCtxDone) =>
        <>(\/ stopChanClosed
           \/ rrCtxDone
           \/ (messagesChanClosed /\ rrPc \in {"none", "closed"})))

\* C12: Query and QueryWithContent called on a client that is not connected
\* (never connected, or closed) return the connection error "not connected"
\* whatever the prompt or content is, the empty prompt and the nil content
\* included, and neither write to the transport nor go on to write.
C12_QueryNeedsConnection ==
  [][\A op \in {"Query", "QueryWithContent"}, content \in {"", "hi"} :
       (Client_Query(op, content) /\ ~connected) =>
          /\ opRes' = OpResult(op, "not connected - call Connect() first")
          /\ written' = written
          /\ queryPc' = NoQuery]_vars

\* A Query on a client that was connected and then closed returned the
\* connection error, with nothing written since the initialize request.
C12_Witness ==
  /\ opRes = OpResult("Query", "not connected - call Connect() first")
  /\ cctxDone /\ ~connected
  /\ Len(written) = 1

\* C13: Connect called on a connected client returns "client already
\* connected" and changes nothing: the client stays connected, no child is
\* started, nothing is written (no second initialize request), the router and
\* the transport are left as they were, and the call is over.
C13_ConnectWhenConnectedFails ==
  [][\A spawned \in BOOLEAN :
       (Connect_Begin(spawned) /\ connected) =>
          /\ opRes' = OpResult("Connect", "client already connected")
          /\ connected' /\ clPc' = "idle"
          /\ nSpawned' = nSpawned /\ nReaders' = nReaders
          /\ UNCHANGED <<tvars, callvars, loopvars, connectTrace>>]_vars

\* A second Connect returned "client already connected" on a connected
\* client that has one child and has written one initialize request.
C13_Witness ==
  /\ connected /\ clPc = "idle"
  /\ opRes = OpResult("Connect", "client already connected")
  /\ nSpawned = 1
  /\ Len(SelectSeq(written, LAMBDA m : m.type = "control_request")) = 1

\* C14: once Close has taken the client out of Connected (which cancels the
\* client's context), the client is never connected again, and a Connect
\* that returns after it returns an error.
C14_NoReconnectAfterClose ==
  /\ cctxDone => ~connected
  /\ (cctxDone /\ clPc = "idle" /\ opRes.op = "Connect") => opRes.err # ""

\* C15: Close called on a client that is not connected (a second Close, or
\* a Close before any Connect) returns nil at once and calls neither
\* Query.Stop nor the transport's Close.
C15_CloseIdempotent ==
  [][(Close_Begin /\ ~connected) =>
        /\ opRes' = OpResult("Close", "")
        /\ clPc' = "idle"
        /\ nStop' = nStop /\ nTClose' = nTClose
        /\ UNCHANGED <<tvars, callvars, loopvars, connected, cctxDone>>]_vars

\* A connected client was closed, and a second Close has returned nil: one
\* Stop and one transport Close were made in all.
C15_Witness ==
  /\ cctxDone /\ clPc = "idle" /\ nOps = 3
  /\ opRes = OpResult("Close", "")
  /\ nStop = 1 /\ nTClose = 1

\* The steps of a Connect that succeeds, in order.
ConnectSteps == <<"transport", "check", "start", "initialize", "connected">>

IsPrefix(s, t) == Len(s) <= Len(t) /\ \A i \in 1..Len(s) : s[i] = t[i]

\* C16: Connect takes its steps in the order transport open, sticky-error
\* check, message-loop start, initialize, connected; the client is connected
\* only once Initialize has returned the child's success response; it is not
\* connected while Connect runs, nor after a Connect that failed.
C16_ConnectOrder ==
  /\ IsPrefix(connectTrace, ConnectSteps)
  /\ connected => /\ connectTrace = ConnectSteps
                  /\ calls[1].pc = "done" /\ calls[1].res.kind = "ok"
                  /\ matched[1].type = "control_response" /\ matched[1].sub = "success"
  /\ clPc \in {"conn_check", "conn_start", "conn_init", "conn_call", "fail_stop"} => ~connected
  /\ (clPc = "idle" /\ opRes.op = "Connect"
        /\ opRes.err \notin {"", "client already connected"}) => ~connected

\* Connect has returned nil on a client it has just marked connected.
C16_Witness ==
  /\ connected /\ clPc = "idle" /\ opRes = OpResult("Connect", "")
  /\ connectTrace = ConnectSteps

\* The child's session-not-found report is on its diagnostic stream, or has
\* become the sticky error.
FatalReported ==
  \/ \E i \in 1..Len(stderr) : extractSessionNotFoundError(stderr[i])[1]
  \/ terr = SessionNotFoundError("s1")

\* C17: when the child reports session-not-found on its diagnostic stream
\* right after it was spawned (and exits), the Connect that spawned it
\* returns that error and the client is not connected.
C17_FatalStartupSurfacesInConnect ==
  (FatalReported /\ clPc = "idle" /\ opRes.op = "Connect") =>
     (opRes.err = SessionNotFoundError("s1") /\ ~connected)

\* The forwarding loop of the one-shot Query has ended.
ForwardingEnded == rrPc \in {"defer_stop", "defer_output", "closed"}

\* C18: for a one-shot Query that returned a channel, whenever the
\* forwarding loop has ended (Result delivered, messagesChan closed, context
\* cancelled), the returned channel is eventually closed; it is closed only
\* after Query.Stop was called (the stop signal given and the router's
\* context cancelled) and the transport was closed; and it is closed once.
C18_OneShotTeardown ==
  /\ [](ForwardingEnded => <>outputClosed)
  /\ [](outputClosed => /\ stopChanClosed /\ qctxDone /\ nStop = 1
                        /\ ~ready /\ nTClose = 1
                        /\ nOutClose = 1)
  /\ [](nOutClose <= 1)

\* The caller cancelled its context while a message was held for a full
\* outputChan, and the returned channel is closed after the teardown.
C18_Witness ==
  /\ outputClosed /\ connCtxDone
  /\ Len(routed) > Len(outputChan) + Len(consumed[1]) + Len(messagesChan)
  /\ ~(\E i \in 1..Len(outputChan) : IsResult(outputChan[i]))
  /\ ~(\E i \in 1..Len(consumed[1]) : IsResult(consumed[1][i]))

\* C19: once the transport's sticky error is set it is never changed: no
\* later decode error, diagnostic-derived error or write failure replaces
\* it.
C19_StickyErrorFirstWins ==
  [][terr # "" => terr' = terr]_vars

C21_WriteNeedsReady ==
  /\ [][\A ok \in BOOLEAN :
          Transport_Write(ok) =>
             /\ ~ready => /\ opRes' = OpResult("Transport.Write",
                                               "transport is not ready for writing")
                          /\ written' = written /\ ~ready'
             /\ (ready /\ ~ok) => /\ opRes' = OpResult("Transport.Write",
                                                        "failed to write to subprocess stdin")
                                   /\ written' = written /\ ~ready'
             /\ (ready /\ ok) => /\ opRes'.err = ""
                                  /\ written' = Append(written, UserLine("hi"))]_vars
  /\ [](terr = "failed to write to subprocess stdin" => ~ready)

\* A Write was refused as not ready on a transport whose earlier write had
\* failed (no Close was called).
C21_Witness ==
  /\ opRes = OpResult("Transport.Write", "transport is not ready for writing")
  /\ terr = "failed to write to subprocess stdin"
  /\ nTClose = 0

\* The lines of s that UnmarshalMessage accepts.
Decodable(s) == SelectSeq(s, LAMBDA m : m.type # "invalid")

\* C22: a line that does not decode is reported through OnError and skipped,
\* and the channel stays open; the lines that decode are delivered, all and
\* in the order written, whatever undecodable lines lie between them; the
\* channel is closed only at end of stream, on a read error of the stream or
\* when the transport's context is cancelled, and once closed it stays
\* closed and receives nothing more.
C22_DecodeErrorSkipsLine ==
  /\ [](Flatten(consumed) \o tmessages \o Decodable(stdout) = Decodable(emitted))
  /\ [][messageReaderLoop_DecodeError =>
          (terr' # "" /\ ~tmessagesClosed' /\ tmessages' = tmessages)]_vars
  /\ [][(~tmessagesClosed /\ tmessagesClosed') =>
          \/ stdoutEOF /\ stdout = <<>>
          \/ tctxDone
          \/ messageReaderLoop_ReadError]_vars
  /\ [][tmessagesClosed =>
          (tmessagesClosed' /\ Len(tmessages') <= Len(tmessages))]_vars

\* The first line the child wrote did not decode and was reported; the
\* second, written after it, has been read from the channel, which is open.
C22_Witness ==
  /\ Len(emitted) >= 2 /\ emitted[1].type = "invalid" /\ emitted[2].type = "assistant"
  /\ terr = "failed to parse message"
  /\ Flatten(consumed) = <<emitted[2]>>
  /\ ~tmessagesClosed

\* ----------------------------------------------------------------- C23
\* C23: for a can_use_tool request the child sent, the response written
\* carries the ID the child gave the request; without a permission callback
\* it is an error response; with one (and a request naming a tool and its
\* input) a Deny gives {behavior: deny, message} plus interrupt exactly when
\* it is set, and an Allow gives {behavior: allow, updatedInput}, the
\* callback's updated input if it gave one and the request's input otherwise.
LastWritten == written[Len(written)]
C23_PermissionResponse ==
  [][\A msg \in handlers, cb \in PermissionResults, h \in MCPResults, hk \in HookResults :
       (/\ handleControlRequest_Run(msg, cb, h, hk, TRUE)
        /\ ready
        /\ msg.request.present /\ msg.request.subtype = "can_use_tool") =>
          LET line == LastWritten'
          IN /\ Len(written') = Len(written) + 1
             /\ line.request_id = msg.sent_id
             /\ ~canUseTool => line.subtype = "error"
             /\ (canUseTool /\ msg.request.tool_name # "" /\ cb.kind = "deny") =>
                   /\ line.subtype = "success"
                   /\ line.response["behavior"] = "deny"
                   /\ cb.message # "" => line.response["message"] = cb.message
                   /\ cb.interrupt <=> "interrupt" \in DOMAIN line.response
             /\ (canUseTool /\ msg.request.tool_name # "" /\ cb.kind = "allow") =>
                   /\ line.subtype = "success"
                   /\ line.response["behavior"] = "allow"
                   /\ line.response["updatedInput"] =
                        IF cb.updatedInput # "" THEN cb.updatedInput ELSE msg.request.input]_vars

\* The payload part of C23 alone: what the response says, whatever ID it
\* carries.
C23_PayloadFollowsCallback ==
  [][\A msg \in handlers, cb \in PermissionResults, h \in MCPResults, hk \in HookResults :
       (/\ handleControlRequest_Run(msg, cb, h, hk, TRUE)
        /\ ready
        /\ handleControlRequest_RequestID(msg) # 0
        /\ msg.request.present /\ msg.request.subtype = "can_use_tool") =>
          LET line == LastWritten'
          IN /\ line.request_id = handleControlRequest_RequestID(msg)
             /\ ~canUseTool => line.subtype = "error" /\ invoked' = invoked
             /\ (canUseTool /\ msg.request.tool_name # "" /\ cb.kind = "deny") =>
                   /\ line.subtype = "success"
                   /\ line.response["behavior"] = "deny"
                   /\ cb.message # "" => line.response["message"] = cb.message
                   /\ cb.interrupt <=> "interrupt" \in DOMAIN line.response
             /\ (canUseTool /\ msg.request.tool_name # "" /\ cb.kind = "allow") =>
                   /\ line.subtype = "success"
                   /\ line.response["behavior"] = "allow"
                   /\ line.response["updatedInput"] =
                        IF cb.updatedInput # "" THEN cb.updatedInput ELSE msg.request.input]_vars


\* ----------------------------------------------------------------- C24
\* C24: an mcp_message request naming a server that is not registered is
\* answered with a success response whose payload is a JSON-RPC error with
\* code -32601; one whose registered handler returns an error, with a success
\* response carrying code -32603; neither is answered with an error response.
C24_MCPErrorsAreSuccessResponses ==
  [][\A msg \in handlers, cb \in PermissionResults, h \in MCPResults, hk \in HookResults :
       (/\ handleControlRequest_Run(msg, cb, h, hk, TRUE)
        /\ ready
        /\ msg.request.present /\ msg.request.subtype = "mcp_message"
        /\ msg.request.server_name # "" /\ msg.request.message # 0) =>
          LET line == LastWritten'
          IN /\ msg.request.server_name \notin mcpServers =>
                   /\ line.subtype = "success"
                   /\ line.response["mcp_response"].code = -32601
             /\ (msg.request.server_name \in mcpServers /\ h = "error") =>
                   /\ line.subtype = "success"
                   /\ line.response["mcp_response"].code = -32603]_vars

\* The same for the requests whose ID the router reads.
C24_MCPErrorsWhenIDRead ==
  [][\A msg \in handlers, cb \in PermissionResults, h \in MCPResults, hk \in HookResults :
       (/\ handleControlRequest_Run(msg, cb, h, hk, TRUE)
        /\ ready
        /\ handleControlRequest_RequestID(msg) # 0
        /\ msg.request.present /\ msg.request.subtype = "mcp_message"
        /\ msg.request.server_name # "" /\ msg.request.message # 0) =>
          LET line == LastWritten'
          IN /\ msg.request.server_name \notin mcpServers =>
                   /\ line.subtype = "success"
                   /\ line.response["mcp_response"].code = -32601
                   /\ line.response["mcp_response"].id = msg.request.message
                   /\ invoked' = invoked
             /\ (msg.request.server_name \in mcpServers /\ h = "error") =>
                   /\ line.subtype = "success"
                   /\ line.response["mcp_response"].code = -32603
                   /\ line.response["mcp_response"].id = msg.request.message]_vars


\* ----------------------------------------------------------------- C30
\* C30: a control request with a subtype the router does not support is
\* answered with an error response naming that subtype; interrupt and
\* set_permission_mode requests are answered with an empty success response;
\* none of them makes the router call a user callback.
SupportedSubtypes == {"can_use_tool", "hook_callback", "mcp_message", "interrupt", "set_permission_mode"}
C30_UnsupportedAndAcknowledged ==
  [][\A msg \in handlers, cb \in PermissionResults, h \in MCPResults, hk \in HookResults :
       (/\ handleControlRequest_Run(msg, cb, h, hk, TRUE)
        /\ ready
        /\ msg.request.present
        /\ msg.request.subtype \notin {"can_use_tool", "hook_callback", "mcp_message"}) =>
          LET line == LastWritten'
          IN /\ invoked' = invoked
             /\ msg.request.subtype \in {"interrupt", "set_permission_mode"} =>
                   /\ line.subtype = "success"
                   /\ line.response = EmptyMap
             /\ msg.request.subtype \notin SupportedSubtypes =>
                   /\ line.subtype = "error"
                   /\ line.error = "unsupported control request subtype: " \o msg.request.subtype]_vars

\* The same for the requests whose ID the router reads.
C30_WhenIDRead ==
  [][\A msg \in handlers, cb \in PermissionResults, h \in MCPResults, hk \in HookResults :
       (/\ handleControlRequest_Run(msg, cb, h, hk, TRUE)
        /\ ready
        /\ handleControlRequest_RequestID(msg) # 0
        /\ msg.request.present
        /\ msg.request.subtype \notin {"can_use_tool", "hook_callback", "mcp_message"}) =>
          LET line == LastWritten'
          IN /\ invoked' = invoked
             /\ line.request_id = handleControlRequest_RequestID(msg)
             /\ msg.request.subtype \in {"interrupt", "set_permission_mode"} =>
                   /\ line.subtype = "success"
                   /\ line.response = EmptyMap
             /\ msg.request.subtype \notin SupportedSubtypes =>
                   /\ line.subtype = "error"
                   /\ line.error = "unsupported control request subtype: " \o msg.request.subtype]_vars


\* ----------------------------------------------------------------- C25
\* The request lines written so far that carry call c's request ID.
RequestsWrittenBy(c) ==
  {i \in 1..Len(written) : written[i].type = "control_request" /\ written[i].rid = calls[c].id}

\* C25 as stated: a non-streaming Initialize writes nothing and returns no
\* result and no error; a call made after a success writes nothing and
\* returns the cached result; a call that sends has written one initialize
\* request when it returns, and returns only once its response has arrived
\* or its context is cancelled.
C25_InitializeIdempotent ==
  /\ [][\A c \in Callers :
          Initialize_Enter(c) =>
             /\ written' = written /\ calls' = calls
             /\ ~isStreamingMode => initCall'[c] = [pc |-> "returned", res |-> Result("nil", "")]
             /\ (isStreamingMode /\ initialized) =>
                   initCall'[c] = [pc |-> "returned", res |-> initializeResult]]_vars
  /\ [][\A c \in Callers :
          Initialize_Return(c) =>
             /\ Cardinality(RequestsWrittenBy(c)) = 1
             /\ matched[c] # NoMsg \/ callCtxDone[c]]_vars

\* C25 with the failed write added: a call that sends returns either at
\* once with an error, having written nothing, when the write of its request
\* fails, or after one request was written, once its response has arrived or
\* its context is cancelled; it returns a result only for a success response,
\* which it caches, and the flag once set stays set.
C25_InitializeIdempotentOrWriteFails ==
  /\ [][\A c \in Callers :
          Initialize_Enter(c) =>
             /\ written' = written /\ calls' = calls
             /\ ~isStreamingMode => initCall'[c] = [pc |-> "returned", res |-> Result("nil", "")]
             /\ (isStreamingMode /\ initialized) =>
                   initCall'[c] = [pc |-> "returned", res |-> initializeResult]]_vars
  /\ [][\A c \in Callers :
          Initialize_Return(c) =>
             \/ /\ calls[c].res.kind = "send_failed"
                /\ RequestsWrittenBy(c) = {}
                /\ initCall'[c].res = Result("control_protocol", "initialization failed")
                /\ initialized' = initialized
             \/ /\ Cardinality(RequestsWrittenBy(c)) = 1
                /\ matched[c] # NoMsg \/ callCtxDone[c]
                /\ IF matched[c] # NoMsg /\ matched[c].sub # "error" /\ calls[c].res.kind = "ok"
                     THEN /\ initCall'[c].res = Result("ok", matched[c].val)
                          /\ initialized' /\ initializeResult' = initCall'[c].res
                     ELSE /\ initCall'[c].res = Result("control_protocol", "initialization failed")
                          /\ initialized' = initialized]_vars
  /\ [][initialized => initialized']_vars
  /\ [](\A c \in Callers : (initCall[c].pc = "returned" /\ calls[c].pc = "idle") =>
                              RequestsWrittenBy(c) = {})
  /\ [](~isStreamingMode => written = <<>> /\ ~initialized)

\* Caller 1 was answered and returned the result; caller 2, calling after
\* that, returned the same result without sending anything.
C25_Witness ==
  /\ isStreamingMode
  /\ initCall[1].pc = "returned" /\ initCall[1].res.kind = "ok" /\ calls[1].pc = "done"
  /\ initCall[2].pc = "returned" /\ initCall[2].res = initCall[1].res /\ calls[2].pc = "idle"
  /\ Len(written) = 1


C27_ErrorStaysWithItsRequest ==
  /\ [][(messageLoop_Receive /\ Head(tmessages).type = "control_response") =>
          LET m == Head(tmessages)
          IN /\ (m.sub = "nil" \/ m.rid = 0) =>
                   /\ requestMap' = requestMap /\ responseChan' = responseChan /\ calls' = calls
                   /\ routeErr' # "nil" /\ loopPc' = "select"
             /\ (m.sub = "error" /\ m.rid # 0 /\ requestMap[m.rid] # 0) =>
                   /\ loopPc' = "deliver" /\ loopTo' = requestMap[m.rid]
                   /\ loopRes'.kind = "control_protocol"
                   /\ \A i \in MapIDs : i # m.rid => requestMap'[i] = requestMap[i]
                   /\ responseChan' = responseChan /\ calls' = calls]_vars
  /\ [][handleControlResponse_Send =>
          /\ loopPc' = "select"
          /\ \A c \in Callers : c # loopTo => responseChan'[c] = responseChan[c]
          /\ responseChan'[loopTo] = Append(responseChan[loopTo], loopRes)]_vars
  /\ [](loopPc = "deliver" => ENABLED handleControlResponse_Send)
  /\ []((loopPc = "select" /\ tmessages # <<>>) => ENABLED messageLoop_Receive)
  /\ [](loopPc = "exited" => qctxDone \/ stopChanClosed \/ tmessagesClosed)
  /\ [](\A c \in Callers :
          (calls[c].pc = "done" /\ calls[c].res.kind \in {"ok", "control_protocol"}
             /\ calls[c].res.val # "control requests require streaming mode") =>
                /\ matched[c].rid = calls[c].id
                /\ calls[c].res = ResponseResult(matched[c]))

\* Call 1 was resolved by an error response and call 2, after it, by a
\* success response; the loop is at its select.
C27_Witness ==
  /\ calls[1].pc = "done" /\ calls[1].res = Result("control_protocol", "boom")
  /\ calls[2].pc = "done" /\ calls[2].res.kind = "ok"
  /\ emitted = <<>> /\ nEmitted = 2 /\ loopPc = "select"
  /\ issued = <<1, 2>>


\* ----------------------------------------------------------------- C28
\* C28: NewClient called with options that set both a permission callback
\* and a permission prompt tool name returns the error and no client; called
\* with options that set the callback only, it does not reject them: the
\* client it returns (it returns one whenever a CLI path is given or found)
\* has the permission prompt tool name "stdio".
C28_PermissionOptionsValidated ==
  [][\A found \in BOOLEAN :
       NewClient(found) =>
          /\ (options.canUseTool /\ options.permissionPromptToolName # "nil") =>
                /\ ~client'.made
                /\ client'.err = "can_use_tool callback cannot be used with permission_prompt_tool_name"
          /\ (options.canUseTool /\ options.permissionPromptToolName = "nil") =>
                /\ (options.cliPath \/ found) =>
                      /\ client'.made /\ client'.err = ""
                      /\ client'.options.permissionPromptToolName = "stdio"
                      /\ client'.options.canUseTool
                /\ ~(options.cliPath \/ found) => client'.err = "Claude Code CLI not found"]_vars

\* NewClient returned a client for options that set the callback only.
C28_Witness ==
  /\ nOps = 1 /\ client.made
  /\ client.options.canUseTool /\ client.options.permissionPromptToolName = "stdio"
  /\ opRes = OpResult("NewClient", "")


\* ----------------------------------------------------------------- C29
\* A user line whose content, one tool_result block, is under "message".
NestedToolResult(line) ==
  /\ IsUserWire(line)
  /\ line.content.kind = "absent"
  /\ line.message.kind = "array" /\ Len(line.message.blocks) = 1
  /\ line.message.blocks[1].type = "tool_result"

\* C29: a user line with its content under "message", one tool_result block,
\* decodes without error into a user message whose content is a sequence of
\* one block, a tool result with the tool-use ID of the line.
C29_NestedUserMessageDecodes ==
  [][(/\ stdout # <<>> /\ NestedToolResult(Head(stdout))
      /\ stdout' = Tail(stdout)) =>
        /\ terr' = terr
        /\ tmessages' = Append(tmessages,
              [type |-> "user",
               content |-> [kind |-> "blocks", str |-> "",
                            blocks |-> <<[kind |-> "tool_result",
                                          tool_use_id |-> Head(stdout).message.blocks[1].tool_use_id]>>]])]_vars

\* The same content at the top level of the line does decode so.
C29_TopLevelContentDecodes ==
  [][(/\ stdout # <<>> /\ IsUserWire(Head(stdout))
      /\ Head(stdout).content.kind = "array" /\ Len(Head(stdout).content.blocks) = 1
      /\ Head(stdout).content.blocks[1].type = "tool_result"
      /\ stdout' = Tail(stdout)) =>
        /\ terr' = terr
        /\ tmessages' = Append(tmessages,
              [type |-> "user",
               content |-> [kind |-> "blocks", str |-> "",
                            blocks |-> <<[kind |-> "tool_result",
                                          tool_use_id |-> Head(stdout).content.blocks[1].tool_use_id]>>]])]_vars


\* ----------------------------------------------------------------- C31
\* A hook_callback request the router is about to answer.
IsHookRequest(msg) == msg.request.present /\ msg.request.subtype = "hook_callback"

\* C31: a hook_callback request with a registered callback ID calls exactly
\* the callback registered under that ID, and the map the callback returns
\* is the payload of a success response; a request with no callback ID or an
\* unregistered one is answered with an error response and calls no
\* callback; a callback returning a value that is not a map gives an error
\* response, and no other callback is called.
C31_HookCallbackResponse ==
  [][\A msg \in handlers, cb \in PermissionResults, h \in MCPResults, hk \in HookResults :
       (/\ handleControlRequest_Run(msg, cb, h, hk, TRUE)
        /\ ready
        /\ IsHookRequest(msg)) =>
          LET line == LastWritten'
              id == msg.request.callback_id
          IN /\ id \in hookCallbacks =>
                   /\ Len(invoked') = Len(invoked) + 1
                   /\ invoked'[Len(invoked')].callback = "hook:" \o id
                   /\ hk.kind = "map" =>
                         /\ line.subtype = "success"
                         /\ line.response = MapPut(EmptyMap, "output", hk.output)
                   /\ hk.kind = "other" => line.subtype = "error"
             /\ id \notin hookCallbacks =>
                   /\ line.subtype = "error"
                   /\ invoked' = invoked]_vars

\* The same for the requests whose ID the router reads.
C31_WhenIDRead ==
  [][\A msg \in handlers, cb \in PermissionResults, h \in MCPResults, hk \in HookResults :
       (/\ handleControlRequest_Run(msg, cb, h, hk, TRUE)
        /\ ready
        /\ handleControlRequest_RequestID(msg) # 0
        /\ IsHookRequest(msg)) =>
          LET line == LastWritten'
              id == msg.request.callback_id
          IN /\ line.request_id = handleControlRequest_RequestID(msg)
             /\ id \in hookCallbacks =>
                   /\ Len(invoked') = Len(invoked) + 1
                   /\ invoked'[Len(invoked')].callback = "hook:" \o id
                   /\ hk.kind = "map" =>
                         /\ line.subtype = "success"
                         /\ line.response = MapPut(EmptyMap, "output", hk.output)
                   /\ hk.kind = "other" => line.subtype = "error"
             /\ id \notin hookCallbacks =>
                   /\ line.subtype = "error"
                   /\ invoked' = invoked]_vars

\* ----------------------------------------------------------------- C32
\* C32: whenever a hook_callback request makes the router call a hook
\* callback, the callback gets the tool_use_id of the request, and no
\* identifier exactly when the request carries none.
C32_HookGetsToolUseID ==
  [][\A msg \in handlers, cb \in PermissionResults, h \in MCPResults, hk \in HookResults :
       (/\ handleControlRequest_Run(msg, cb, h, hk, TRUE)
        /\ IsHookRequest(msg)
        /\ invoked' # invoked) =>
          invoked'[Len(invoked')].toolUseID = msg.request.tool_use_id]_vars

\* What does hold: the callback is called without an identifier always.
C32_HookGetsNoToolUseID ==
  [][\A msg \in handlers, cb \in PermissionResults, h \in MCPResults, hk \in HookResults :
       (/\ handleControlRequest_Run(msg, cb, h, hk, TRUE)
        /\ IsHookRequest(msg)
        /\ invoked' # invoked) =>
          invoked'[Len(invoked')].toolUseID = ""]_vars

\* ----------------------------------------------------------------- C33
\* C33: a control_request the child sent with an ID, handled while the
\* transport is writable, gets exactly one control_response line written,
\* and that line carries the ID the child gave the request.
C33_OneResponseWithRequestID ==
  [][\A msg \in handlers, cb \in PermissionResults, h \in MCPResults, hk \in HookResults :
       (/\ handleControlRequest_Run(msg, cb, h, hk, TRUE)
        /\ ready
        /\ msg.sent_id # 0) =>
          /\ Len(written') = Len(written) + 1
          /\ LastWritten'.type = "control_response"
          /\ LastWritten'.request_id = msg.sent_id]_vars

\* What does hold: one line per request, carrying the ID the router read
\* from "data" or "request" (none for an ID at the top level of the line).
C33_OneResponseWithIDRead ==
  [][\A msg \in handlers, cb \in PermissionResults, h \in MCPResults, hk \in HookResults :
       (/\ handleControlRequest_Run(msg, cb, h, hk, TRUE)
        /\ ready) =>
          /\ Len(written') = Len(written) + 1
          /\ LastWritten'.type = "control_response"
          /\ LastWritten'.request_id = handleControlRequest_RequestID(msg)]_vars


\* ----------------------------------------------------------------- C34
\* C34: the request map holds an entry for an ID only while the
\* sendControlRequest call that generated the ID is in progress, between
\* its registration and its return; the entry is there when the call writes
\* its request line (unless a response naming the ID has come in already
\* and taken it); a call that has returned, with a response, a write
\* error or the cancellation error, has left no entry; so the map is empty
\* whenever no call is in progress.
C34_EntriesOnlyWhileCallInProgress ==
  /\ [](\A id \in MapIDs :
          requestMap[id] # 0 =>
             /\ calls[requestMap[id]].id = id
             /\ calls[requestMap[id]].pc \in {"write", "wait"})
  /\ [](\A c \in Callers :
          /\ calls[c].pc = "write" => requestMap[calls[c].id] = c \/ matched[c] # NoMsg
          /\ calls[c].pc = "done" => \A id \in MapIDs : requestMap[id] # c)
  /\ []((\A c \in Callers : calls[c].pc \in {"idle", "done"}) =>
          \A id \in MapIDs : requestMap[id] = 0)
  /\ [][\A c \in Callers, ok \in BOOLEAN :
          sendControlRequest_Write(c, ok) =>
             requestMap[calls[c].id] = c \/ matched[c] # NoMsg]_vars

\* Both calls have returned, one with a response and one with a failed
\* write or a cancellation, and the map is empty.
C34_Witness ==
  /\ \E c, d \in Callers :
        /\ calls[c].pc = "done" /\ calls[c].res.kind = "ok"
        /\ calls[d].pc = "done" /\ calls[d].res.kind \in {"send_failed", "canceled"}
  /\ \A id \in MapIDs : requestMap[id] = 0


\* ----------------------------------------------------------------- C35
\* C35: if the transport's message stream is closed while an Initialize
\* call waits for the response to its request, the call eventually returns,
\* though nobody cancels its context.
C35_StreamCloseReleasesWaiters ==
  \A c \in Callers :
    []((tmessagesClosed /\ initCall[c].pc = "call" /\ calls[c].pc = "wait")
         => <>(initCall[c].pc = "returned"))

\* What does hold: a waiting call whose response was routed returns.
C35_MatchedWaitersReturn ==
  \A c \in Callers :
    []((matched[c] # NoMsg /\ initCall[c].pc = "call" /\ calls[c].pc = "wait")
         => <>(initCall[c].pc = "returned"))


\* ----------------------------------------------------------------- C36
\* C36: when Connect has returned nil the client is connected, and a Query
\* or QueryWithContent that follows with a non-empty input is not rejected
\* as not connected.
C36_ConnectNilMeansConnected ==
  /\ []((clPc = "idle" /\ opRes = OpResult("Connect", "")) => connected)
  /\ [][\A op \in {"Query", "QueryWithContent"} :
          (Client_Query(op, "hi") /\ opRes = OpResult("Connect", "")) =>
             queryPc' = [op |-> op, content |-> "hi"]]_vars

\* What does hold: the same for a client that was never closed (its own
\* context is live).
C36_WhenNeverClosed ==
  /\ []((clPc = "idle" /\ opRes = OpResult("Connect", "") /\ ~cctxDone) => connected)
  /\ [][\A op \in {"Query", "QueryWithContent"} :
          (Client_Query(op, "hi") /\ opRes = OpResult("Connect", "") /\ ~cctxDone) =>
             queryPc' = [op |-> op, content |-> "hi"]]_vars


\* ----------------------------------------------------------------- C37
\* Connect has returned an error after transport.Connect had succeeded.
ConnectFailedAfterOpen ==
  /\ clPc = "idle" /\ opRes.op = "Connect"
  /\ opRes.err \notin {"", "client already connected", "failed to connect to Claude CLI"}
\* This Connect started the message loop.
LoopStarted == \E i \in 1..Len(connectTrace) : connectTrace[i] = "start"
\* The transport is closed: not ready, its context cancelled, the child gone.
TransportClosed == ~ready /\ tctxDone /\ stdoutEOF

\* C37: when Connect has failed after the transport was opened, the
\* transport is closed and the message loop, if this Connect started it, has
\* exited.
C37_FailedConnectTearsDown ==
  ConnectFailedAfterOpen =>
     /\ TransportClosed
     /\ LoopStarted => loopPc = "exited"

\* As amended: the loop has exited, or the context passed to Connect is
\* cancelled and the loop has been told to stop (its stop channel is closed
\* and its context cancelled).
C37_FailedConnectTearsDownOrSignals ==
  ConnectFailedAfterOpen =>
     /\ TransportClosed
     /\ LoopStarted =>
           \/ loopPc = "exited"
           \/ connCtxDone /\ stopChanClosed /\ qctxDone

\* Connect has returned the initialize failure with the transport closed and
\* the loop it started exited.
C37_Witness ==
  /\ ConnectFailedAfterOpen /\ opRes.err = "failed to initialize control protocol"
  /\ LoopStarted /\ loopPc = "exited" /\ TransportClosed /\ ~connCtxDone


\* ----------------------------------------------------------------- C38
\* C38: NewClient leaves the options object it was given as it was, and a
\* NewClient call that follows a successful one with the same object is not
\* rejected for its permission settings.
C38_NewClientLeavesOptions ==
  [][\A found \in BOOLEAN :
       NewClient(found) =>
          /\ options' = options
          /\ opRes = OpResult("NewClient", "") =>
                client'.err # "can_use_tool callback cannot be used with permission_prompt_tool_name"]_vars

\* What does hold: NewClient changes nothing but the permission prompt tool
\* name, and that only for options with a callback and no tool name.
C38_OnlyToolNameChanges ==
  [][\A found \in BOOLEAN :
       NewClient(found) =>
          /\ options' = [options EXCEPT !.permissionPromptToolName = options'.permissionPromptToolName]
          /\ ~(options.canUseTool /\ options.permissionPromptToolName = "nil") =>
                options' = options]_vars


\* ----------------------------------------------------------------- C39
\* C39: whenever the transport's Connect returns nil the transport is
\* ready, and a write made then is not refused as not ready; also when the
\* call follows a Connect that failed or a Close.
C39_ConnectNilMeansReady ==
  /\ [][\A spawned \in BOOLEAN :
          (Transport_Connect(spawned) /\ TransportConnectError(spawned) = "") => ready']_vars
  /\ [][\A ok \in BOOLEAN :
          (Transport_Write(ok) /\ opRes = OpResult("Transport.Connect", "")) =>
             opRes'.err # "transport is not ready for writing"]_vars

\* What does hold: the same for the first Connect call of a transport (t.cmd
\* is nil).
C39_FirstConnectNilMeansReady ==
  /\ [][\A spawned \in BOOLEAN :
          (Transport_Connect(spawned) /\ ~tcmd /\ TransportConnectError(spawned) = "") =>
             ready']_vars
  /\ [][\A ok \in BOOLEAN :
          (Transport_Write(ok) /\ opRes = OpResult("Transport.Connect", "") /\ nOps = 1) =>
             opRes'.err # "transport is not ready for writing"]_vars


\* ----------------------------------------------------------------- C40
\* C40: the router never sends on its consumer channel once the channel is
\* closed, and never closes it twice; Stop closes it only when the message
\* loop has exited; a further Stop call closes nothing again; and when a
\* Stop call has returned nil the channel is closed.
C40_ConsumerChannelClosedByStop ==
  /\ [][routeMessage_Send => ~messagesChanClosed]_vars
  /\ [][Stop_Close => ~messagesChanClosed /\ loopPc = "exited"]_vars
  /\ [][(Stop_Signal /\ stopChanClosed) => UNCHANGED <<stopChanClosed, messagesChanClosed>>]_vars
  /\ [](messagesChanClosed => loopPc = "exited")
  /\ [](stopPc = "done" => messagesChanClosed)

\* What does hold: all of it but the last part, which holds for the first
\* Stop call only.
C40_NoSendAfterClose ==
  /\ [][routeMessage_Send => ~messagesChanClosed]_vars
  /\ [][Stop_Close => ~messagesChanClosed /\ loopPc = "exited"]_vars
  /\ [][(Stop_Signal /\ stopChanClosed) => UNCHANGED <<stopChanClosed, messagesChanClosed>>]_vars
  /\ [](messagesChanClosed => loopPc = "exited")
  /\ []((stopPc = "done" /\ nStop = 0) => messagesChanClosed)

====
